---- MODULE Spec2Model ----
(***************************************************************************)
(* The static page generator of the knowledge-base site (the generator     *)
(* script embedded in README.md): parseArgs, loadData, the content model   *)
(* builder, the filesystem writer and the stale-page pruning, as a state   *)
(* machine over an abstract filesystem.                                    *)
(*                                                                         *)
(* A path string is modelled as the sequence of its "/"-separated          *)
(* segments: "a/b/" is <<"a","b","">>, "/" is <<"","">>, "" is <<"">>.     *)
(* The segment " " is a segment made of white space.  An absolute          *)
(* filesystem path is the sequence of its directory names from the         *)
(* filesystem root.                                                        *)
(***************************************************************************)
EXTENDS Integers, Sequences, FiniteSets, TLC

\* ------------------------------------------------------------------ bounds
MaxArticles == 2   \* articles in the input document
MaxRuns == 2       \* successive generator runs on the same input

\* ------------------------------------------------------------------ inputs
\* process.cwd() and the default of --out ("docs").
Cwd == <<"w">>
OutArg == <<"docs">>

\* Raw article paths of the input document: "a", "a/b", "a/b/", "b/a", "/"
\* (valid, normalizes to the empty path) and "../a" (valid, with a ".."
\* segment).
RawPaths ==
  { <<"a">>, <<"a", "b">>, <<"a", "b", "">>, <<"b", "a">>, <<"", "">>, <<"..", "a">> }

\* A path of white space only.
BlankPath == <<" ">>

\* Raw titles; "T2 " carries trailing white space that cleanText removes.
RawTitles == { "T1", "T2 " }

\* The articles of the input: "a" and "a/b/" with the title "T2 " and every
\* other path with the title "T1", so that two articles of one normalized
\* path ("a/b" and "a/b/") differ in their titles and the order of a group by
\* title ("a/b", "a") differs from the order by path.
InputArticles ==
  { article \in [path : RawPaths, title : RawTitles] :
      article.title = (IF article.path \in { <<"a">>, <<"a", "b", "">> } THEN "T2 " ELSE "T1") }

RECURSIVE SeqsUpTo(_, _)
SeqsUpTo(S, n) ==
  IF n = 0 THEN { <<>> }
  ELSE LET shorter == SeqsUpTo(S, n - 1)
       IN  shorter \cup { Append(s, x) : s \in { t \in shorter : Len(t) = n - 1 }, x \in S }

\* The input file: unreadable, not JSON, without an articles array, with an
\* article of a blank path (alone, or after a good article), or a document
\* of articles that pass the checks of loadData.
Documents ==
  { [kind |-> k, articles |-> <<>>] : k \in { "unreadable", "badjson", "noarticles" } }
  \cup { [kind |-> "ok", articles |-> as] :
           as \in { <<[path |-> BlankPath, title |-> "T1"]>>,
                    <<[path |-> <<"a", "b">>, title |-> "T1"],
                      [path |-> BlankPath, title |-> "T1"]>> } }
  \cup { [kind |-> "ok", articles |-> as] : as \in SeqsUpTo(InputArticles, MaxArticles) }

\* Values that may follow --generate-home / --generate-landings.
BoolTokens == { "true", "FALSE ", "maybe" }

\* args.includePaths = null; a given list is never empty.
NoInclude == <<>>
\* "a," : an include list with an empty token.
EmptyToken == << <<"a">>, <<"">> >>
\* What follows --include-paths, already split on ",": none, "/ /a/b" (which
\* parseArgs normalizes to " /a/b" and run, normalizing again, to "a/b"),
\* "/a/b/,b/a", "a,".
IncludeArgs ==
  { NoInclude,
    << <<"", " ", "a", "b">> >>,
    << <<"", "a", "b", "">>, <<"b", "a">> >>,
    EmptyToken }

\* The command lines: every combination of the two flags without an include
\* list, the include lists with both flags on, and the ones with a bad flag
\* value or an empty include token, all in either mode.
Argvs ==
  [dryRun : BOOLEAN, generateHome : BoolTokens \ { "maybe" },
   generateLandings : BoolTokens \ { "maybe" }, includePaths : { NoInclude }]
  \cup [dryRun : BOOLEAN, generateHome : { "true" }, generateLandings : { "true" },
        includePaths : IncludeArgs \ { NoInclude, EmptyToken }]
  \cup [dryRun : BOOLEAN, generateHome : { "maybe" }, generateLandings : { "true" },
        includePaths : { NoInclude }]
  \cup [dryRun : BOOLEAN, generateHome : { "true" }, generateLandings : { "maybe" },
        includePaths : { NoInclude }]
  \cup [dryRun : BOOLEAN, generateHome : { "true" }, generateLandings : { "true" },
        includePaths : { EmptyToken }]

\* ------------------------------------------------------- string functions
\* String.prototype.trim on a path string: white space at either end of
\* the string goes; white space next to a "/" inside stays.
Trim(p) ==
  [i \in 1..Len(p) |-> IF (i = 1 \/ i = Len(p)) /\ p[i] = " " THEN "" ELSE p[i]]

RECURSIVE StripLeadingSlashes(_)
StripLeadingSlashes(p) ==
  IF Len(p) > 1 /\ Head(p) = "" THEN StripLeadingSlashes(Tail(p)) ELSE p

RECURSIVE StripTrailingSlashes(_)
StripTrailingSlashes(p) ==
  IF Len(p) > 1 /\ p[Len(p)] = ""
  THEN StripTrailingSlashes(SubSeq(p, 1, Len(p) - 1)) ELSE p

normalizeArticlePath(value) ==
  StripTrailingSlashes(StripLeadingSlashes(Trim(value)))

\* cleanText on a title: decodes entities, collapses and trims white space.
cleanText(value) == IF value = "T2 " THEN "T2" ELSE value

\* The empty string, as a path.
EmptyPath == <<"">>

\* value.split("/").filter(Boolean)
RECURSIVE FilterBoolean(_)
FilterBoolean(p) ==
  IF p = <<>> THEN <<>>
  ELSE IF Head(p) = "" THEN FilterBoolean(Tail(p))
  ELSE <<Head(p)>> \o FilterBoolean(Tail(p))

\* segment.split("-").filter(Boolean).map(capitalise).join(" ")
titleCaseFromSegment(segment) ==
  CASE segment = "a" -> "A"
    [] segment = "b" -> "B"
    [] segment = "misc" -> "Misc"
    [] OTHER -> segment

\* parseBooleanArg: String(raw).trim().toLowerCase() is "true" or "false".
BoolArgValid(raw) == raw \in { "true", "FALSE " }
parseBooleanArg(raw) == raw = "true"

\* ---------------------------------------------------------------- ordering
\* String.prototype.localeCompare on the strings of the model: "/", white
\* space and "." collate before letters, a prefix before its extensions.
SegRank(s) ==
  CASE s = "" -> 0
    [] s = " " -> 1
    [] s = ".." -> 2
    [] s = "a" -> 3
    [] s = "b" -> 4
    [] OTHER -> 5

RECURSIVE PathLess(_, _)
PathLess(p, q) ==
  IF q = <<>> THEN FALSE
  ELSE IF p = <<>> THEN TRUE
  ELSE IF Head(p) # Head(q) THEN SegRank(Head(p)) < SegRank(Head(q))
  ELSE PathLess(Tail(p), Tail(q))

StringRank(s) ==
  CASE s = ".." -> 0
    [] s = "A" -> 1
    [] s = "B" -> 2
    [] s = "Misc" -> 3
    [] s = "T1" -> 4
    [] s = "T2" -> 5
    [] OTHER -> 6

StringLess(s, t) == StringRank(s) < StringRank(t)

\* Array.prototype.sort is stable: an element comes after the elements that
\* are less than it and after the earlier elements that are not greater.
\* less[i][j] tells whether the comparator puts s[i] before s[j].
SortBy(s, less) ==
  LET Position(i) ==
        1 + Cardinality({ j \in 1..Len(s) : less[j][i] \/ (j < i /\ ~less[i][j]) })
  IN  [k \in 1..Len(s) |-> s[CHOOSE i \in 1..Len(s) : Position(i) = k]]

Range(s) == { s[i] : i \in 1..Len(s) }

\* ------------------------------------------------------------- parseArgs
IncludeGiven(a) == a.includePaths # NoInclude

parseArgsError(a) ==
  \/ IncludeGiven(a)
     /\ \E i \in 1..Len(a.includePaths) :
          normalizeArticlePath(a.includePaths[i]) = EmptyPath
  \/ ~BoolArgValid(a.generateHome)
  \/ ~BoolArgValid(a.generateLandings)

parseArgs(a) ==
  [dryRun |-> a.dryRun,
   includePaths |->
     IF IncludeGiven(a)
     THEN [i \in 1..Len(a.includePaths) |-> normalizeArticlePath(a.includePaths[i])]
     ELSE NoInclude,
   generateHome |-> parseBooleanArg(a.generateHome),
   generateLandings |-> parseBooleanArg(a.generateLandings)]

\* -------------------------------------------------------------- loadData
loadDataError(d) ==
  \/ d.kind # "ok"
  \/ \E i \in 1..Len(d.articles) : Trim(d.articles[i].path) = EmptyPath

\* ------------------------------------------------- normalize and de-duplicate
\* The loop of run over data.articles: the first article of each normalized
\* path is kept, with its path normalized and its title cleaned.
\* The loop without the seenPaths test: every article is kept.
uniqueArticlesFrom_KeepAll(articles, seenPaths) ==
  [i \in 1..Len(articles) |->
     [path |-> normalizeArticlePath(articles[i].path), title |-> cleanText(articles[i].title)]]

RECURSIVE uniqueArticlesFrom(_, _)
uniqueArticlesFrom(articles, seenPaths) ==
  IF articles = <<>> THEN <<>>
  ELSE LET normalizedPath == normalizeArticlePath(Head(articles).path)
       IN  IF normalizedPath \in seenPaths
           THEN uniqueArticlesFrom(Tail(articles), seenPaths)
           ELSE <<[path |-> normalizedPath, title |-> cleanText(Head(articles).title)]>>
                \o uniqueArticlesFrom(Tail(articles), seenPaths \cup { normalizedPath })

RECURSIVE duplicateWarningsFrom(_, _)
duplicateWarningsFrom(articles, seenPaths) ==
  IF articles = <<>> THEN <<>>
  ELSE LET normalizedPath == normalizeArticlePath(Head(articles).path)
       IN  IF normalizedPath \in seenPaths
           THEN <<normalizedPath>> \o duplicateWarningsFrom(Tail(articles), seenPaths)
           ELSE duplicateWarningsFrom(Tail(articles), seenPaths \cup { normalizedPath })

uniqueArticlesOf(d) == uniqueArticlesFrom(d.articles, {})
duplicateWarningsOf(d) == duplicateWarningsFrom(d.articles, {})

\* ------------------------------------------------------- include filter
requestedIncludePaths(parsed) ==
  [i \in 1..Len(parsed.includePaths) |-> normalizeArticlePath(parsed.includePaths[i])]

\* The include filter keeping every article.
selectedArticlesOf_All(parsed, unique) == unique

selectedArticlesOf(parsed, unique) ==
  IF parsed.includePaths = NoInclude THEN unique
  ELSE SelectSeq(unique, LAMBDA article : article.path \in Range(requestedIncludePaths(parsed)))

\* The include filter without its check for unknown paths.
missingIncludePaths_None(parsed, unique) == <<>>

missingIncludePaths(parsed, unique) ==
  IF parsed.includePaths = NoInclude THEN <<>>
  ELSE LET found == { article.path : article \in Range(selectedArticlesOf(parsed, unique)) }
       IN  SelectSeq(requestedIncludePaths(parsed), LAMBDA p : p \notin found)

sortedArticlesOf(selected) ==
  SortBy(selected, [i \in 1..Len(selected) |-> [j \in 1..Len(selected) |->
                      PathLess(selected[i].path, selected[j].path)]])

\* ---------------------------------------------------- buildSectionModels
FallbackSegment == "misc"

\* Grouping by the last segment instead of the first.
firstSegment_Last(articlePath) ==
  LET segments == FilterBoolean(articlePath)
  IN  IF segments = <<>> THEN FallbackSegment ELSE segments[Len(segments)]

firstSegment(articlePath) ==
  LET segments == FilterBoolean(articlePath)
  IN  IF segments = <<>> THEN FallbackSegment ELSE Head(segments)

\* The keys of the Map, in insertion order.
RECURSIVE segmentsInOrder(_, _)
segmentsInOrder(articles, seen) ==
  IF articles = <<>> THEN <<>>
  ELSE LET segment == firstSegment(Head(articles).path)
       IN  IF segment \in seen THEN segmentsInOrder(Tail(articles), seen)
           ELSE <<segment>> \o segmentsInOrder(Tail(articles), seen \cup { segment })

sectionOf(segment, articles) ==
  LET members == SelectSeq(articles, LAMBDA article : firstSegment(article.path) = segment)
      sorted == SortBy(members, [i \in 1..Len(members) |-> [j \in 1..Len(members) |->
                                   StringLess(members[i].title, members[j].title)]])
  IN  [key |-> segment, label |-> titleCaseFromSegment(segment), path |-> segment,
       articles |-> sorted, count |-> Len(sorted)]

buildSectionModels(articles) ==
  LET keys == segmentsInOrder(articles, {})
      unsorted == [i \in 1..Len(keys) |-> sectionOf(keys[i], articles)]
  IN  SortBy(unsorted, [i \in 1..Len(keys) |-> [j \in 1..Len(keys) |->
                          StringLess(unsorted[i].label, unsorted[j].label)]])

\* ------------------------------------------------------------ filesystem
\* path.join / path.resolve: "", "." and ".." segments are resolved.
RECURSIVE PathJoin(_, _)
PathJoin(base, segments) ==
  IF segments = <<>> THEN base
  ELSE LET s == Head(segments)
           next == IF s = "" \/ s = "." THEN base
                   ELSE IF s = ".."
                        THEN (IF base = <<>> THEN base ELSE SubSeq(base, 1, Len(base) - 1))
                        ELSE Append(base, s)
       IN  PathJoin(next, Tail(segments))

\* path.dirname, path.basename
Dirname(p) == IF p = <<>> THEN p ELSE SubSeq(p, 1, Len(p) - 1)
Basename(p) == IF p = <<>> THEN "" ELSE p[Len(p)]

IsPrefix(p, q) == Len(p) <= Len(q) /\ SubSeq(q, 1, Len(p)) = p
Prefixes(p) == { SubSeq(p, 1, k) : k \in 0..Len(p) }

IndexHtml == "index.html"
SearchIndexJson == "search-index.json"

\* const outDir = path.resolve(process.cwd(), args.out)
outDir == PathJoin(Cwd, OutArg)

\* fs.mkdir(dirPath, {recursive: true}) fails when a file is in the way.
MkdirOk(fl, dirPath) == \A q \in Prefixes(dirPath) : q \notin DOMAIN fl
Mkdir(ds, dirPath) == ds \cup Prefixes(dirPath)

\* fs.writeFile fails on a directory and in a missing directory.
WriteFileOk(ds, filePath) == filePath \notin ds /\ Dirname(filePath) \in ds
WriteFile(fl, filePath, content) ==
  [p \in DOMAIN fl \cup { filePath } |-> IF p = filePath THEN content ELSE fl[p]]

Unlink(fl, filePath) == [p \in DOMAIN fl \ { filePath } |-> fl[p]]

\* ensureDir, writeTextFile and removeFile return at once in a dry run.
ensureDir(ds, dirPath, dryRun) == IF dryRun THEN ds ELSE Mkdir(ds, dirPath)

\* writeTextFile without its dry-run return.
writeTextFile_IgnoresDryRun(fl, filePath, content, dryRun) ==
  WriteFile(fl, filePath, content)

writeTextFile(fl, filePath, content, dryRun) ==
  IF dryRun THEN fl ELSE WriteFile(fl, filePath, content)

removeFile(fl, filePath, dryRun) == IF dryRun THEN fl ELSE Unlink(fl, filePath)

\* fs.readdir(dirPath)
Entries(fl, ds, dirPath) ==
  { p \in DOMAIN fl \cup ds : Len(p) = Len(dirPath) + 1 /\ Dirname(p) = dirPath }

\* listFilesRecursive: every file below dirPath, none when it does not exist.
listFilesRecursive(fl, ds, dirPath) ==
  IF dirPath \notin ds THEN {}
  ELSE { p \in DOMAIN fl : IsPrefix(dirPath, p) /\ p # dirPath }

\* removeDirIfEmptyRecursive without its loop: only dirPath itself is tried.
removeDirIfEmptyRecursive_ParentOnly(current, stopDir, dryRun, fl, ds) ==
  IF ~(IsPrefix(stopDir, current) /\ current # stopDir) THEN <<>>
  ELSE IF current \notin ds THEN <<>>
  ELSE IF Entries(fl, ds, current) # {} THEN <<>>
  ELSE <<current>>

\* removeDirIfEmptyRecursive: the directories it removes (reports, in a dry
\* run), from dirPath upwards, read from the filesystem as it goes.
RECURSIVE removeDirIfEmptyRecursive(_, _, _, _, _)
removeDirIfEmptyRecursive(current, stopDir, dryRun, fl, ds) ==
  IF ~(IsPrefix(stopDir, current) /\ current # stopDir) THEN <<>>
  ELSE IF current \notin ds THEN <<>>
  ELSE IF Entries(fl, ds, current) # {} THEN <<>>
  ELSE <<current>>
       \o removeDirIfEmptyRecursive(Dirname(current), stopDir, dryRun, fl,
                                    IF dryRun THEN ds ELSE ds \ { current })

\* ------------------------------------------------------------- rendering
\* "../".repeat(depthSegments), and the same followed by "./": relative
\* references, as the sequences of their segments.
searchIndexPrefix(depthSegments) == [i \in 1..depthSegments |-> ".."]
homeHref(depthSegments) == Append([i \in 1..depthSegments |-> ".."], ".")

\* renderSidebar: for each group its key, whether it is rendered expanded
\* (aria-expanded, the list not hidden), whether its overview link is marked
\* active and, for each article link, whether it is marked active.
renderSidebar(active, secs) ==
  [i \in 1..Len(secs) |->
     LET sectionActive == active.type = "landing" /\ active.sectionKey = secs[i].key
         articleActive == active.type = "article" /\ active.sectionKey = secs[i].key
     IN  [key |-> secs[i].key,
          expanded |-> sectionActive \/ articleActive,
          overviewActive |-> sectionActive,
          links |-> [j \in 1..Len(secs[i].articles) |->
                       [path |-> secs[i].articles[j].path,
                        active |-> active.type = "article"
                                   /\ active.articlePath = secs[i].articles[j].path]]]]

\* renderPagination: the articles the Previous and the Next link point to;
\* <<>> is the disabled item.  articles.findIndex is 0-based, -1 when absent.
renderPagination(currentArticle, articles) ==
  LET found == { i \in 1..Len(articles) : articles[i].path = currentArticle.path }
      index == IF found = {} THEN -1
               ELSE (CHOOSE i \in found : \A j \in found : i <= j) - 1
  IN  [previous |-> IF index > 0 THEN <<articles[index].path>> ELSE <<>>,
       next |-> IF index >= 0 /\ index < Len(articles) - 1
                THEN <<articles[index + 2].path>> ELSE <<>>]

\* The fallback group key of renderArticlePageHtml.
ArticleFallbackSegment == "docs"

\* The pages, as what they show: the page type, the page it is, its title,
\* its references to the search index and to the home page, its sidebar and,
\* on an article page, its pagination.
renderHomePageHtml(secs) ==
  [type |-> "home", key |-> <<>>, title |-> "Cascade CMS Knowledge Base",
   searchRoot |-> searchIndexPrefix(0), homeHref |-> homeHref(0),
   sidebar |-> renderSidebar([type |-> "home", sectionKey |-> "", articlePath |-> <<>>], secs)]

renderSectionLandingHtml(section, secs) ==
  [type |-> "landing", key |-> <<section.key>>, title |-> section.label,
   searchRoot |-> searchIndexPrefix(1), homeHref |-> homeHref(1),
   sidebar |-> renderSidebar([type |-> "landing", sectionKey |-> section.key,
                              articlePath |-> <<>>], secs)]

renderArticlePageHtml(article, articles, secs) ==
  LET segments == FilterBoolean(article.path)
      depth == Len(segments)
      first == IF segments = <<>> THEN ArticleFallbackSegment ELSE Head(segments)
  IN  [type |-> "article", key |-> article.path, title |-> article.title,
       searchRoot |-> searchIndexPrefix(depth), homeHref |-> homeHref(depth),
       sidebar |-> renderSidebar([type |-> "article", sectionKey |-> first,
                                  articlePath |-> article.path], secs),
       pagination |-> renderPagination(article, articles)]

\* The characters of a path: its segments joined by "/".  The segments "a"
\* and "b" are one letter each, ".." is two dots.
SegmentChars(segment) ==
  IF segment = "" THEN <<>>
  ELSE IF segment = ".." THEN <<".", ".">>
  ELSE <<segment>>

RECURSIVE PathChars(_)
PathChars(path) ==
  IF path = <<>> THEN <<>>
  ELSE IF Len(path) = 1 THEN SegmentChars(path[1])
  ELSE SegmentChars(path[1]) \o <<"/">> \o PathChars(Tail(path))

\* [a-z0-9] after toLowerCase, over the characters of the model.
IsSlugChar(c) == c \notin { "/", " ", ".", "-" }

\* .replace(/[^a-z0-9]+/g, "-"): every run of other characters becomes one "-".
RECURSIVE DashRuns(_)
DashRuns(chars) ==
  IF chars = <<>> THEN <<>>
  ELSE IF IsSlugChar(Head(chars)) THEN <<Head(chars)>> \o DashRuns(Tail(chars))
  ELSE IF Len(chars) > 1 /\ ~IsSlugChar(chars[2]) THEN DashRuns(Tail(chars))
  ELSE <<"-">> \o DashRuns(Tail(chars))

\* .replace(/^-+|-+$/g, "")
RECURSIVE TrimDashes(_)
TrimDashes(chars) ==
  IF chars = <<>> THEN <<>>
  ELSE IF Head(chars) = "-" THEN TrimDashes(Tail(chars))
  ELSE IF chars[Len(chars)] = "-" THEN TrimDashes(SubSeq(chars, 1, Len(chars) - 1))
  ELSE chars

\* .replace(/-{2,}/g, "-")
RECURSIVE CollapseDashes(_)
CollapseDashes(chars) ==
  IF Len(chars) < 2 THEN chars
  ELSE IF chars[1] = "-" /\ chars[2] = "-" THEN CollapseDashes(Tail(chars))
  ELSE <<Head(chars)>> \o CollapseDashes(Tail(chars))

slugify(value) == CollapseDashes(TrimDashes(DashRuns(PathChars(value))))

\* buildSearchIndexDoc with the fallback group of renderArticlePageHtml.
buildSearchIndexDoc_DocsFallback(article) ==
  [id |-> slugify(article.path),
   title |-> article.title,
   category |-> titleCaseFromSegment(IF FilterBoolean(article.path) = <<>>
                                     THEN ArticleFallbackSegment
                                     ELSE Head(FilterBoolean(article.path))),
   url |-> <<"">> \o StripTrailingSlashes(StripLeadingSlashes(article.path)) \o <<"">>]

\* buildSearchIndexDoc: the url is "/" + the path without the slashes at its
\* ends + "/".
buildSearchIndexDoc(article) ==
  [id |-> slugify(article.path),
   title |-> article.title,
   category |-> titleCaseFromSegment(firstSegment(article.path)),
   url |-> <<"">> \o StripTrailingSlashes(StripLeadingSlashes(article.path)) \o <<"">>]

\* The target files of the pages.
homeFile == Append(outDir, IndexHtml)
landingDir(section) == PathJoin(outDir, <<section.path>>)
articleDir(article) == PathJoin(outDir, article.path)

\* expectedIndexFiles, forgetting the landing pages.
expectedIndexFiles_NoLandings(parsed, secs, articles) ==
  (IF parsed.generateHome THEN { homeFile } ELSE {})
  \cup { Append(articleDir(articles[i]), IndexHtml) : i \in 1..Len(articles) }

\* expectedIndexFiles of run
expectedIndexFiles(parsed, secs, articles) ==
  (IF parsed.generateHome THEN { homeFile } ELSE {})
  \cup (IF parsed.generateLandings
        THEN { Append(landingDir(secs[i]), IndexHtml) : i \in 1..Len(secs) } ELSE {})
  \cup { Append(articleDir(articles[i]), IndexHtml) : i \in 1..Len(articles) }

\* The stale filter without the test of the file name.
staleIndexFilesOf_AnyFile(fl, ds, parsed, secs, articles) ==
  { filePath \in listFilesRecursive(fl, ds, outDir) :
      filePath \notin expectedIndexFiles(parsed, secs, articles) }

staleIndexFilesOf(fl, ds, parsed, secs, articles) ==
  { filePath \in listFilesRecursive(fl, ds, outDir) :
      /\ Basename(filePath) = IndexHtml
      /\ filePath \notin expectedIndexFiles(parsed, secs, articles) }

\* ---------------------------------------------------------------- state
VARIABLES
  doc,                     \* the input document (data.json)
  argv,                    \* the command line
  files,                   \* the filesystem: file path -> content
  dirs,                    \* the filesystem: the directories
  pc,                      \* where run is
  runs,                    \* generator runs started so far
  error,                   \* what the run threw: "none", "args", "input", "include", "io"
  args,                    \* parseArgs' result
  duplicateWarnings,
  sortedArticles,
  sections,
  idx,                     \* the loop index of the landing and article loops
  staleIndexFiles,         \* stale files the prune loop has not reached yet
  searchDocs,
  homeWrittenCount,
  landingWrittenCount,
  articleWrittenCount,
  staleDeletedCount,
  staleDirectoriesRemoved,
  files0,                  \* the filesystem when the current run started
  dirs0,
  prev,                    \* the summary of the run before the current one
  loadFile,                \* loadData on its own: the input file
  loadResult,              \* loadData on its own: what it returned or threw
  applyPc,                 \* apply-live-component-updates: where main is
  applyArgs,               \* its options
  applyQueue,              \* the parsed review queue file
  applyItems,              \* the items main loops over
  applyIndex,              \* the position of the loop
  applyDocs,               \* the local pages: resolved path -> html
  applyReport,             \* the report object
  applyReportFile,         \* apply-live-updates-report.json
  poolPc,                  \* download-kb-html's runPool: where the call is
  poolItems,               \* its items
  poolConcurrency,         \* its concurrency
  poolIndex,               \* index, counted from 0 as in the code
  poolRunners,             \* the runOne calls: what each awaits
  poolResults,             \* results: index -> what the worker resolved with
  poolCalls,               \* the worker calls made so far, in order
  poolManifest,            \* the entries the worker has pushed, in order
  fetchPc,                 \* download-kb-html's fetchWithRetry: where the call is
  fetchOptions,            \* its options
  fetchAttempt,            \* attempt
  fetchLog,                \* how each attempt made so far went
  fetchResult,             \* what the call returned or threw
  pagePc,                  \* a generated page in the browser: "idle" or "loaded"
  pageSystemDark,          \* matchMedia('(prefers-color-scheme: dark)').matches
  pageTheme,               \* theme.js: localStorage, data-theme, the dropdown
  pageLastOption,          \* the theme option clicked last, "none" before any
  pageToc,                 \* toc.js: the panel's class and the button's aria-expanded
  pageDrawer,              \* sidebar.js: the drawer, its overlay and hide timers
  pageCategory,            \* sidebar.js: a category button and its page list
  pageSearch,              \* search.js: the overlay
  pageBodyOverflow,        \* document.body.style.overflow
  discPc,                  \* download-kb-html's discoverPageUrls: where the call is
  scopeUrl,                \* the start URL
  discSite,                \* the links of each document the site serves
  sitemapQueue,
  seenSitemaps,
  pageUrls,
  discLinks,               \* links of the current document still to be looked at
  discFetched,             \* the URLs handed to fetchWithRetry, in order
  discPushed               \* every URL pushed to sitemapQueue by the loop

fsVars == <<files, dirs>>
inVars == <<doc, argv>>
modelVars == <<args, duplicateWarnings, sortedArticles, sections>>
countVars == <<homeWrittenCount, landingWrittenCount, articleWrittenCount,
               staleDeletedCount, staleDirectoriesRemoved>>
histVars == <<runs, files0, dirs0, prev>>
genVars == <<doc, argv, files, dirs, pc, runs, error, args, duplicateWarnings,
             sortedArticles, sections, idx, staleIndexFiles, searchDocs,
             homeWrittenCount, landingWrittenCount, articleWrittenCount,
             staleDeletedCount, staleDirectoriesRemoved, files0, dirs0, prev>>
loadVars == <<loadFile, loadResult>>
\* The variables of the programs other than the generator's run.
applyVars == <<applyPc, applyArgs, applyQueue, applyItems, applyIndex, applyDocs,
               applyReport, applyReportFile>>
poolVars == <<poolPc, poolItems, poolConcurrency, poolIndex, poolRunners, poolResults,
              poolCalls, poolManifest>>
fetchVars == <<fetchPc, fetchOptions, fetchAttempt, fetchLog, fetchResult>>
\* The programs modelled after the first three, and everything besides each
\* of the first three.
pageVars == <<pagePc, pageSystemDark, pageTheme, pageLastOption, pageToc, pageDrawer,
              pageCategory, pageSearch, pageBodyOverflow>>
discVars == <<discPc, scopeUrl, discSite, sitemapQueue, seenSitemaps, pageUrls, discLinks,
              discFetched, discPushed>>
laterVars == <<fetchVars, pageVars, discVars>>
besidesFetch == <<genVars, loadVars, applyVars, poolVars, pageVars, discVars>>
besidesPage == <<genVars, loadVars, applyVars, poolVars, fetchVars, discVars>>
besidesDisc == <<genVars, loadVars, applyVars, poolVars, fetchVars, pageVars>>
besidesLoad == <<genVars, applyVars, poolVars, laterVars>>
besidesApply == <<genVars, loadVars, poolVars, laterVars>>
besidesPool == <<genVars, loadVars, applyVars, laterVars>>
scriptVars == <<loadVars, applyVars, poolVars, laterVars>>
vars == <<genVars, scriptVars>>

\* The other programs are not running.
NotLoaded ==
  [thrown |-> FALSE, returned |-> FALSE, value |-> [type |-> "undefined"],
   message |-> [articles |-> -1, sections |-> -1, codeBlocks |-> -1, field |-> ""]]
LoadIdle == loadFile = [readable |-> FALSE] /\ loadResult = NotLoaded
NoReport ==
  [dryRun |-> FALSE, processed |-> 0, updated |-> 0, skipped |-> 0, errors |-> 0,
   entries |-> <<>>]
ApplyIdle ==
  /\ applyPc = "idle"
  /\ applyArgs = [dryRun |-> FALSE, limit |-> 0]
  /\ applyQueue = [isArray |-> FALSE, matched |-> <<>>]
  /\ applyItems = <<>>
  /\ applyIndex = 1
  /\ applyDocs = <<>>
  /\ applyReport = NoReport
  /\ applyReportFile = <<>>
PoolIdle ==
  /\ poolPc = "idle"
  /\ poolItems = <<>>
  /\ poolConcurrency = 1
  /\ poolIndex = 0
  /\ poolRunners = <<>>
  /\ poolResults = <<>>
  /\ poolCalls = <<>>
  /\ poolManifest = <<>>
NoFetchResult == [returned |-> FALSE, thrown |-> FALSE]
FetchIdle ==
  /\ fetchPc = "idle"
  /\ fetchOptions = [retries |-> 0, delayMs |-> 0, timeoutMs |-> 1]
  /\ fetchAttempt = 0
  /\ fetchLog = <<>>
  /\ fetchResult = NoFetchResult
\* The page as the generator renders it, before any script has run.
RenderedTheme == [stored |-> "none", dataTheme |-> "light", dropdownHidden |-> TRUE]
RenderedToc == [open |-> FALSE, ariaExpanded |-> "false"]
RenderedDrawer ==
  [open |-> FALSE, overlayVisible |-> FALSE, overlayDisplay |-> "", timers |-> 0,
   ariaExpanded |-> "false"]
RenderedCategory(hasActive) ==
  [ariaExpanded |-> IF hasActive THEN "true" ELSE "false", hidden |-> ~hasActive,
   handlers |-> <<>>, transition |-> FALSE]
PageIdle ==
  /\ pagePc = "idle"
  /\ pageSystemDark = FALSE
  /\ pageTheme = RenderedTheme
  /\ pageLastOption = "none"
  /\ pageToc = RenderedToc
  /\ pageDrawer = RenderedDrawer
  /\ pageCategory = RenderedCategory(FALSE)
  /\ pageSearch = [hidden |-> TRUE]
  /\ pageBodyOverflow = ""
NoUrl == [hostname |-> "", pathname |-> <<>>, hash |-> ""]
DiscIdle ==
  /\ discPc = "idle"
  /\ scopeUrl = NoUrl
  /\ discSite = <<>>
  /\ sitemapQueue = <<>>
  /\ seenSitemaps = {}
  /\ pageUrls = {}
  /\ discLinks = <<>>
  /\ discFetched = <<>>
  /\ discPushed = {}
LaterIdle == FetchIdle /\ PageIdle /\ DiscIdle
ScriptsIdle == LoadIdle /\ ApplyIdle /\ PoolIdle /\ LaterIdle

\* Output trees a first run may find: pages of earlier content, by what each
\* page shows.  Only the last one has a search index.
OldArticle(p) == [type |-> "article", key |-> p, title |-> "Old"]
OldHome == [type |-> "home", key |-> <<>>, title |-> "Old"]
OldSearchIndex == [type |-> "search-index", docs |-> <<>>]

PriorTrees ==
  { {},
    { OldArticle(<<"a">>) },
    { OldHome, OldArticle(<<"a", "b">>), OldArticle(<<"b", "a">>), OldSearchIndex } }

PageFile(page) ==
  IF page.type = "search-index" THEN Append(outDir, SearchIndexJson)
  ELSE Append(PathJoin(outDir, page.key), IndexHtml)

TreeFiles(tree) ==
  [p \in { PageFile(page) : page \in tree } |-> CHOOSE page \in tree : PageFile(page) = p]

TreeDirs(tree) ==
  Prefixes(Cwd) \cup UNION { Prefixes(Dirname(PageFile(page))) : page \in tree }

NoArgs ==
  [dryRun |-> FALSE, includePaths |-> NoInclude, generateHome |-> TRUE,
   generateLandings |-> TRUE]

NoRun ==
  [ran |-> FALSE, completed |-> FALSE, dryRun |-> FALSE, files0 |-> <<>>, dirs0 |-> {},
   pagesWritten |-> 0, staleDeleted |-> 0, staleDirsRemoved |-> 0]

GenInit(tree) ==
  /\ files = TreeFiles(tree) /\ dirs = TreeDirs(tree)
  /\ doc = [kind |-> "ok", articles |-> <<>>]
  /\ argv = [dryRun |-> FALSE, generateHome |-> "true", generateLandings |-> "true",
             includePaths |-> NoInclude]
  /\ pc = "idle"
  /\ runs = 0
  /\ error = "none"
  /\ args = NoArgs
  /\ duplicateWarnings = <<>>
  /\ sortedArticles = <<>>
  /\ sections = <<>>
  /\ idx = 1
  /\ staleIndexFiles = {}
  /\ searchDocs = <<>>
  /\ homeWrittenCount = 0
  /\ landingWrittenCount = 0
  /\ articleWrittenCount = 0
  /\ staleDeletedCount = 0
  /\ staleDirectoriesRemoved = {}
  /\ files0 = files
  /\ dirs0 = dirs
  /\ prev = NoRun

Init == ScriptsIdle /\ \E tree \in PriorTrees : GenInit(tree)

\* ------------------------------------------------------------ the run
\* The phase after the home page, the landing pages and the article pages:
\* a loop over nothing is no step.
AfterArticles == "list"
AfterLandings(articles) == IF Len(articles) > 0 THEN "articles" ELSE AfterArticles
AfterHome(parsed, secs, articles) ==
  IF parsed.generateLandings /\ Len(secs) > 0 THEN "landings" ELSE AfterLandings(articles)
FirstPhase(parsed, secs, articles) ==
  IF parsed.generateHome THEN "home" ELSE AfterHome(parsed, secs, articles)

\* const skippedCount = data.articles.length - sortedArticles.length,
\* printed as "Skipped" by a run that completes.
skippedCount == Len(doc.articles) - Len(sortedArticles)

\* What the run that is ending has reported.
Summary ==
  [ran |-> runs > 0, completed |-> pc = "done", dryRun |-> args.dryRun,
   files0 |-> files0, dirs0 |-> dirs0,
   pagesWritten |-> homeWrittenCount + landingWrittenCount + articleWrittenCount,
   staleDeleted |-> staleDeletedCount,
   staleDirsRemoved |-> Cardinality(staleDirectoriesRemoved)]

\* run, from its start to the first write: parseArgs, loadData, the
\* de-duplication, the include filter and the content model.
Begin(d, a) ==
  LET parsed == parseArgs(a)
      unique == uniqueArticlesOf(d)
      selected == selectedArticlesOf(parsed, unique)
      sorted == sortedArticlesOf(selected)
      secs == buildSectionModels(sorted)
      thrown == IF parseArgsError(a) THEN "args"
                ELSE IF loadDataError(d) THEN "input"
                ELSE IF missingIncludePaths(parsed, unique) # <<>> THEN "include"
                ELSE "none"
  IN  /\ doc' = d
      /\ argv' = a
      /\ runs' = runs + 1
      /\ files0' = files
      /\ dirs0' = dirs
      /\ prev' = Summary
      /\ error' = thrown
      /\ idx' = 1
      /\ staleIndexFiles' = {}
      /\ searchDocs' = <<>>
      /\ homeWrittenCount' = 0
      /\ landingWrittenCount' = 0
      /\ articleWrittenCount' = 0
      /\ staleDeletedCount' = 0
      /\ staleDirectoriesRemoved' = {}
      /\ UNCHANGED <<scriptVars, fsVars>>
      /\ IF thrown = "none"
         THEN /\ args' = parsed
              /\ duplicateWarnings' = duplicateWarningsOf(d)
              /\ sortedArticles' = sorted
              /\ sections' = secs
              /\ pc' = FirstPhase(parsed, secs, sorted)
         ELSE /\ args' = [NoArgs EXCEPT !.dryRun = a.dryRun]
              /\ duplicateWarnings' = <<>>
              /\ sortedArticles' = <<>>
              /\ sections' = <<>>
              /\ pc' = "failed"

\* The first run: any command line, any input document.
StartRun ==
  /\ pc = "idle"
  /\ \E d \in Documents, a \in Argvs : Begin(d, a)

\* The generator is run again on the same input and options, now to write.
Rerun ==
  /\ pc = "done"
  /\ runs < MaxRuns
  /\ Begin(doc, [argv EXCEPT !.dryRun = FALSE])

\* ensureDir and writeTextFile of one page.
WritePage(targetDir, content) ==
  LET targetFile == Append(targetDir, IndexHtml)
  IN  /\ args.dryRun \/ (MkdirOk(files, targetDir)
                          /\ WriteFileOk(Mkdir(dirs, targetDir), targetFile))
      /\ dirs' = ensureDir(dirs, targetDir, args.dryRun)
      /\ files' = writeTextFile(files, targetFile, content, args.dryRun)

WriteHome ==
  /\ pc = "home"
  /\ WritePage(outDir, renderHomePageHtml(sections))
  /\ homeWrittenCount' = homeWrittenCount + 1
  /\ pc' = AfterHome(args, sections, sortedArticles)
  /\ idx' = 1
  /\ UNCHANGED <<scriptVars, inVars, modelVars, histVars, error, staleIndexFiles, searchDocs,
                 landingWrittenCount, articleWrittenCount, staleDeletedCount,
                 staleDirectoriesRemoved>>

WriteLanding ==
  /\ pc = "landings"
  /\ WritePage(landingDir(sections[idx]), renderSectionLandingHtml(sections[idx], sections))
  /\ landingWrittenCount' = landingWrittenCount + 1
  /\ IF idx < Len(sections)
     THEN pc' = pc /\ idx' = idx + 1
     ELSE pc' = AfterLandings(sortedArticles) /\ idx' = 1
  /\ UNCHANGED <<scriptVars, inVars, modelVars, histVars, error, staleIndexFiles, searchDocs,
                 homeWrittenCount, articleWrittenCount, staleDeletedCount,
                 staleDirectoriesRemoved>>

WriteArticle ==
  /\ pc = "articles"
  /\ searchDocs' = Append(searchDocs, buildSearchIndexDoc(sortedArticles[idx]))
  /\ WritePage(articleDir(sortedArticles[idx]),
               renderArticlePageHtml(sortedArticles[idx], sortedArticles, sections))
  /\ articleWrittenCount' = articleWrittenCount + 1
  /\ IF idx < Len(sortedArticles)
     THEN pc' = pc /\ idx' = idx + 1
     ELSE pc' = AfterArticles /\ idx' = 1
  /\ UNCHANGED <<scriptVars, inVars, modelVars, histVars, error, staleIndexFiles,
                 homeWrittenCount, landingWrittenCount, staleDeletedCount,
                 staleDirectoriesRemoved>>

\* listFilesRecursive and the two filters that leave the stale index files.
ListStale ==
  /\ pc = "list"
  /\ staleIndexFiles' = staleIndexFilesOf(files, dirs, args, sections, sortedArticles)
  /\ pc' = IF staleIndexFiles' = {} THEN "index" ELSE "prune"
  /\ UNCHANGED <<scriptVars, inVars, fsVars, modelVars, histVars, countVars, error, idx, searchDocs>>

\* One iteration of the prune loop: removeFile, then removeDirIfEmptyRecursive.
\* The order of the stale files is the order readdir listed them in.
PruneStale ==
  /\ pc = "prune"
  /\ \E staleFile \in staleIndexFiles :
       LET filesAfter == removeFile(files, staleFile, args.dryRun)
           removedDirs == removeDirIfEmptyRecursive(Dirname(staleFile), outDir,
                                                    args.dryRun, filesAfter, dirs)
       IN  /\ staleFile \in DOMAIN files
           /\ files' = filesAfter
           /\ dirs' = IF args.dryRun THEN dirs ELSE dirs \ Range(removedDirs)
           /\ staleDeletedCount' = staleDeletedCount + 1
           /\ staleDirectoriesRemoved' = staleDirectoriesRemoved \cup Range(removedDirs)
           /\ staleIndexFiles' = staleIndexFiles \ { staleFile }
           /\ pc' = IF staleIndexFiles' = {} THEN "index" ELSE "prune"
  /\ UNCHANGED <<scriptVars, inVars, modelVars, histVars, error, idx, searchDocs,
                 homeWrittenCount, landingWrittenCount, articleWrittenCount>>

WriteSearchIndex ==
  /\ pc = "index"
  /\ args.dryRun \/ (MkdirOk(files, outDir)
                      /\ WriteFileOk(Mkdir(dirs, outDir), Append(outDir, SearchIndexJson)))
  /\ dirs' = ensureDir(dirs, outDir, args.dryRun)
  /\ files' = writeTextFile(files, Append(outDir, SearchIndexJson),
                            [type |-> "search-index", docs |-> searchDocs], args.dryRun)
  /\ pc' = "done"
  /\ UNCHANGED <<scriptVars, inVars, modelVars, histVars, countVars, error, idx, staleIndexFiles,
                 searchDocs>>

\* The directory of the page (or of the search index) the run is about to
\* write.
CurrentTargetDir ==
  CASE pc = "landings" -> landingDir(sections[idx])
    [] pc = "articles" -> articleDir(sortedArticles[idx])
    [] OTHER -> outDir

\* The file the run is about to write.
CurrentTargetFile ==
  Append(CurrentTargetDir, IF pc = "index" THEN SearchIndexJson ELSE IndexHtml)

\* What fs.writeFile leaves of a file when it throws after it has opened it.
PartialContent == [type |-> "partial"]

\* A throw that undoes what the run has written so far.
FsThrows_RollsBack ==
  /\ pc \in { "home", "landings", "articles", "list", "prune", "index" }
  /\ args.dryRun => pc \in { "list", "prune" }
  /\ files' = files0
  /\ dirs' = dirs0
  /\ pc' = "failed"
  /\ error' = "io"
  /\ UNCHANGED <<scriptVars, inVars, modelVars, histVars, countVars, idx, staleIndexFiles,
                 searchDocs>>

\* A filesystem call throws (permissions, a full disk): run stops there and
\* run().catch reports it.  While the run writes a file the throw comes from
\* ensureDir, or from writeFile after ensureDir has made the directory, and
\* then before or after writeFile has opened the file.  A dry run calls the
\* filesystem only to list and to read directories.
FsThrows ==
  /\ pc \in { "home", "landings", "articles", "list", "prune", "index" }
  /\ args.dryRun => pc \in { "list", "prune" }
  /\ \E thrownIn \in { "call", "writeFile", "writeFile, file opened" } :
       LET writing == /\ thrownIn # "call"
                      /\ pc \in { "home", "landings", "articles", "index" }
                      /\ MkdirOk(files, CurrentTargetDir)
       IN  /\ dirs' = IF writing THEN ensureDir(dirs, CurrentTargetDir, args.dryRun)
                      ELSE dirs
           /\ files' = IF writing /\ thrownIn = "writeFile, file opened"
                       THEN writeTextFile(files, CurrentTargetFile, PartialContent,
                                          args.dryRun)
                       ELSE files
  /\ pc' = "failed"
  /\ error' = "io"
  /\ UNCHANGED <<scriptVars, inVars, modelVars, histVars, countVars, idx, staleIndexFiles,
                 searchDocs>>

Next ==
  \/ StartRun
  \/ Rerun
  \/ WriteHome
  \/ WriteLanding
  \/ WriteArticle
  \/ ListStale
  \/ PruneStale
  \/ WriteSearchIndex
  \/ FsThrows

Spec == Init /\ [][Next]_vars

\* ============================================================== loadData
\* loadData on its own, on input files of every shape.
\*
\* A JSON value is a record with its type: null, a number, a string with its
\* text, an array with its items, an object with its own keys and values.
MaxItems == 2   \* articles, sections of an article, code blocks of a section

JNull == [type |-> "null"]
JNumber == [type |-> "number"]
JUndefined == [type |-> "undefined"]
JString(text) == [type |-> "string", text |-> text]
JArray(items) == [type |-> "array", items |-> items]
JObject(fields) == [type |-> "object", fields |-> fields]

\* !value || typeof value !== "object", negated; Array.isArray(value);
\* Object.hasOwn(value, key); value[key]
IsObject(value) == value.type \in { "object", "array" }
IsArray(value) == value.type = "array"
HasOwn(value, key) == value.type = "object" /\ key \in DOMAIN value.fields
Get(value, key) == IF HasOwn(value, key) THEN value.fields[key] ELSE JUndefined

\* typeof value !== "string" || !value.trim(), negated; the texts of the
\* model are "", " " and words.
NonEmptyString(value) == value.type = "string" /\ value.text \notin { "", " " }

\* The input files are built from a well-formed document of a given shape by
\* damaging it in at most two places.  A damage names what it does and the
\* article, section and code block it does it to (0 where there is none).
RootDamages == { <<kind, 0, 0, 0>> : kind \in { "unreadable", "badjson", "root:null",
                                               "articles:object" } }
ArticleDamages(shape) ==
  { <<kind, i, 0, 0>> :
      kind \in { "article:null", "path:number", "path:blank", "title:empty",
                 "sections:missing" },
      i \in 1..shape[1] }
SectionDamages(shape) ==
  { <<kind, i, j, 0>> :
      kind \in { "section:null", "header:missing", "isCloud:missing", "content:missing",
                 "codeBlocks:string" },
      i \in 1..shape[1], j \in 1..shape[2] }
CodeBlockDamages(shape) ==
  { <<kind, i, j, k>> :
      kind \in { "codeBlock:null", "code:missing", "language:missing",
                 "explanation:missing" },
      i \in 1..shape[1], j \in 1..shape[2], k \in 1..shape[3] }
Damages(shape) ==
  RootDamages \cup ArticleDamages(shape) \cup SectionDamages(shape)
  \cup CodeBlockDamages(shape)

\* The object with the keys of keys, but for the damaged ones.
ObjectOf(keys, missing, values) ==
  JObject([key \in keys \ missing |-> values[key]])

CodeBlockOf(damaged, i, j, k) ==
  IF <<"codeBlock:null", i, j, k>> \in damaged THEN JNull
  ELSE ObjectOf({ "code", "language", "explanation" },
                { key \in { "code", "language", "explanation" } :
                    <<key \o ":missing", i, j, k>> \in damaged },
                [key \in { "code", "language", "explanation" } |-> JString("text")])

SectionOf(shape, damaged, i, j) ==
  IF <<"section:null", i, j, 0>> \in damaged THEN JNull
  ELSE ObjectOf({ "header", "isCloud", "content", "codeBlocks" },
                { key \in { "header", "isCloud", "content" } :
                    <<key \o ":missing", i, j, 0>> \in damaged },
                [key \in { "header", "isCloud", "content", "codeBlocks" } |->
                   IF key = "isCloud" THEN JNull
                   ELSE IF key # "codeBlocks" THEN JString("text")
                   ELSE IF <<"codeBlocks:string", i, j, 0>> \in damaged THEN JString("text")
                   ELSE JArray([k \in 1..shape[3] |-> CodeBlockOf(damaged, i, j, k)])])

ArticleOf(shape, damaged, i) ==
  IF <<"article:null", i, 0, 0>> \in damaged THEN JNull
  ELSE ObjectOf({ "path", "title", "sections" },
                IF <<"sections:missing", i, 0, 0>> \in damaged THEN { "sections" } ELSE {},
                [key \in { "path", "title", "sections" } |->
                   IF key = "path"
                   THEN (IF <<"path:number", i, 0, 0>> \in damaged THEN JNumber
                         ELSE IF <<"path:blank", i, 0, 0>> \in damaged THEN JString(" ")
                         ELSE JString("text"))
                   ELSE IF key = "title"
                   THEN (IF <<"title:empty", i, 0, 0>> \in damaged THEN JString("")
                         ELSE JString("text"))
                   ELSE JArray([j \in 1..shape[2] |-> SectionOf(shape, damaged, i, j)])])

FileOf(shape, damaged) ==
  [readable |-> <<"unreadable", 0, 0, 0>> \notin damaged,
   json |-> <<"badjson", 0, 0, 0>> \notin damaged,
   root |-> IF <<"root:null", 0, 0, 0>> \in damaged THEN JNull
            ELSE JObject([key \in { "articles" } |->
                   IF <<"articles:object", 0, 0, 0>> \in damaged THEN JObject(<<>>)
                   ELSE JArray([i \in 1..shape[1] |-> ArticleOf(shape, damaged, i)])])]

\* The shapes <<articles, sections of each article, code blocks of each
\* section>>: as many of each, and the greatest number with no code blocks and
\* with no sections.
Shapes ==
  { <<n, n, n>> : n \in 0..MaxItems } \cup { <<MaxItems, MaxItems, 0>>, <<MaxItems, 0, 0>> }

\* The error loadData throws, by the element and the field its message
\* names: `articles[i].sections[j].codeBlocks[k].field ...`, with -1 for an
\* index and "" for a field the message does not have.
ErrorAt(i, j, k, field) == [articles |-> i, sections |-> j, codeBlocks |-> k, field |-> field]
NoError == ErrorAt(-1, -1, -1, "")

\* items.forEach(check): the error of the first item whose check throws.
RECURSIVE forEachThrown(_, _)
forEachThrown(thrown, index) ==
  IF index > Len(thrown) THEN NoError
  ELSE IF thrown[index] # NoError THEN thrown[index]
  ELSE forEachThrown(thrown, index + 1)

\* The callbacks of the three forEach loops of loadData; indexes are 0-based.
codeBlockThrown(codeBlock, index, sectionIndex, codeIndex) ==
  IF ~IsObject(codeBlock) THEN ErrorAt(index, sectionIndex, codeIndex, "")
  ELSE IF ~HasOwn(codeBlock, "code") THEN ErrorAt(index, sectionIndex, codeIndex, "code")
  ELSE IF ~HasOwn(codeBlock, "language")
       THEN ErrorAt(index, sectionIndex, codeIndex, "language")
  ELSE IF ~HasOwn(codeBlock, "explanation")
       THEN ErrorAt(index, sectionIndex, codeIndex, "explanation")
  ELSE NoError

sectionThrown(section, index, sectionIndex) ==
  IF ~IsObject(section) THEN ErrorAt(index, sectionIndex, -1, "")
  ELSE IF ~HasOwn(section, "header") THEN ErrorAt(index, sectionIndex, -1, "header")
  ELSE IF ~HasOwn(section, "isCloud") THEN ErrorAt(index, sectionIndex, -1, "isCloud")
  ELSE IF ~HasOwn(section, "content") THEN ErrorAt(index, sectionIndex, -1, "content")
  ELSE IF ~IsArray(Get(section, "codeBlocks"))
       THEN ErrorAt(index, sectionIndex, -1, "codeBlocks")
  ELSE LET codeBlocks == Get(section, "codeBlocks").items
       IN  forEachThrown([k \in 1..Len(codeBlocks) |->
                            codeBlockThrown(codeBlocks[k], index, sectionIndex, k - 1)], 1)

articleThrown(article, index) ==
  IF ~IsObject(article) THEN ErrorAt(index, -1, -1, "")
  ELSE IF ~NonEmptyString(Get(article, "path")) THEN ErrorAt(index, -1, -1, "path")
  ELSE IF ~NonEmptyString(Get(article, "title")) THEN ErrorAt(index, -1, -1, "title")
  ELSE IF ~IsArray(Get(article, "sections")) THEN ErrorAt(index, -1, -1, "sections")
  ELSE LET articleSections == Get(article, "sections").items
       IN  forEachThrown([j \in 1..Len(articleSections) |->
                            sectionThrown(articleSections[j], index, j - 1)], 1)

\* loadData, returning everything it checked as valid.
loadData_BestEffort(file) ==
  [thrown |-> FALSE, message |-> NoError, returned |-> TRUE, value |-> file.root]

\* loadData: what it throws, or that it returned the parsed document.
loadData(file) ==
  LET message ==
        IF ~file.readable THEN ErrorAt(-1, -1, -1, "file")
        ELSE IF ~file.json THEN ErrorAt(-1, -1, -1, "json")
        ELSE IF ~IsObject(file.root) THEN ErrorAt(-1, -1, -1, "root")
        ELSE IF ~IsArray(Get(file.root, "articles")) THEN ErrorAt(-1, -1, -1, "articles")
        ELSE LET articles == Get(file.root, "articles").items
             IN  forEachThrown([i \in 1..Len(articles) |->
                                  articleThrown(articles[i], i - 1)], 1)
  IN  [thrown |-> message # NoError, message |-> message, returned |-> message = NoError,
       value |-> IF message = NoError THEN file.root ELSE JUndefined]

LoadInit ==
  /\ \E shape \in Shapes :
       \/ loadFile = FileOf(shape, {})
       \/ \E d1, d2 \in Damages(shape) : loadFile = FileOf(shape, { d1, d2 })
  /\ loadResult = NotLoaded
  /\ ApplyIdle
  /\ PoolIdle
  /\ LaterIdle
  /\ GenInit({})

LoadData ==
  /\ ~loadResult.thrown /\ ~loadResult.returned
  /\ loadResult' = loadData(loadFile)
  /\ UNCHANGED <<besidesLoad, loadFile>>

LoadNext == LoadData

LoadSpec == LoadInit /\ [][LoadNext]_vars

\* ============================================ apply-live-component-updates
\* main of the script that rewrites the body of local pages from downloaded
\* live pages.  Paths of this script are strings, written as sequences of
\* characters, since it compares them with startsWith.
MaxQueue == 2

ApplyCwd == <<"/", "w">>
DocsRootArg == <<"d", "o", "c", "s">>

\* path.resolve of one relative or absolute path without dot segments.
resolve(p) == IF Len(p) > 0 /\ p[1] = "/" THEN p ELSE ApplyCwd \o <<"/">> \o p

startsWith(s, prefix) == Len(s) >= Len(prefix) /\ SubSeq(s, 1, Len(prefix)) = prefix

docsRoot == resolve(DocsRootArg)

\* A converted body, by what validateConvertedBody inspects of it.
BodyOf(markers, h2, length, codeBlockInP, cardGridInP) ==
  [markers |-> markers, h2 |-> h2, length |-> length, codeBlockInP |-> codeBlockInP,
   cardGridInP |-> cardGridInP]

GoodBody == BodyOf({}, TRUE, 250, FALSE, FALSE)

forbidden ==
  <<"btn-copy", "token keyword", "<script", "class=\"anchor-heading\"", "<main", "</main>">>

\* The error message, "" for a body that passes.
validateConvertedBody(bodyHtml) ==
  LET found == { i \in 1..Len(forbidden) : forbidden[i] \in bodyHtml.markers }
  IN  IF found # {}
        THEN <<"contains forbidden marker: ",
               forbidden[CHOOSE i \in found : \A j \in found : i <= j]>>
      ELSE IF ~bodyHtml.h2 THEN <<"missing h2 headings">>
      ELSE IF bodyHtml.length < 200 THEN <<"body too short">>
      ELSE IF bodyHtml.codeBlockInP THEN <<"invalid nesting: code-block inside p">>
      ELSE IF bodyHtml.cardGridInP THEN <<"invalid nesting: card-grid inside p">>
      ELSE <<>>

\* The downloaded live pages under the download root, by file name: whether
\* the file can be read, whether extractLiveBody finds a body in it, and what
\* the conversions make of that body.
LivePage(readable, liveBody, converted) ==
  [readable |-> readable, liveBody |-> liveBody, converted |-> converted]

Downloads ==
  [name \in { "ok", "script", "main", "noh2", "short", "code", "cards", "nobody", "missing" } |->
     CASE name = "ok" -> LivePage(TRUE, TRUE, GoodBody)
       [] name = "script" -> LivePage(TRUE, TRUE, BodyOf({ "<script" }, TRUE, 250, FALSE, FALSE))
       [] name = "main" -> LivePage(TRUE, TRUE, BodyOf({ "<main", "</main>" }, FALSE, 100, FALSE, FALSE))
       [] name = "noh2" -> LivePage(TRUE, TRUE, BodyOf({}, FALSE, 250, FALSE, FALSE))
       [] name = "short" -> LivePage(TRUE, TRUE, BodyOf({}, TRUE, 199, FALSE, FALSE))
       [] name = "code" -> LivePage(TRUE, TRUE, BodyOf({}, TRUE, 250, TRUE, FALSE))
       [] name = "cards" -> LivePage(TRUE, TRUE, BodyOf({}, TRUE, 250, FALSE, TRUE))
       [] name = "nobody" -> LivePage(TRUE, FALSE, GoodBody)
       [] name = "missing" -> LivePage(FALSE, FALSE, GoodBody)]

\* A local page: whether findBodyRange finds the body markers, and the body.
LocalPage(range, body) == [range |-> range, body |-> body]
CurrentBody == [current |-> TRUE]
PartialPage == [range |-> FALSE, body |-> [partial |-> TRUE]]

findBodyRange(localHtml) ==
  IF localHtml.range THEN [found |-> TRUE, currentBody |-> localHtml.body]
  ELSE [found |-> FALSE]

\* The page with the converted body between the two markers: both markers
\* are kept.
rebuilt(localHtml, converted) == LocalPage(TRUE, converted)

\* The local files before the script runs: two pages under the docs root,
\* one of them without the body markers, a page in a sibling directory whose
\* name starts with the docs root's, and a page elsewhere.
LocalA == DocsRootArg \o <<"/", "a">>
LocalN == DocsRootArg \o <<"/", "n">>
LocalM == DocsRootArg \o <<"/", "m">>
LocalSibling == DocsRootArg \o <<"2", "/", "a">>
LocalElsewhere == <<"x", "/", "a">>
LocalDocPaths == { LocalA, LocalN, LocalM, LocalSibling, LocalElsewhere }

LocalDocs0 ==
  [p \in { resolve(LocalA), resolve(LocalN), resolve(LocalSibling), resolve(LocalElsewhere) } |->
     LocalPage(p # resolve(LocalN), CurrentBody)]

\* The entries of queue.matched: objects, and null.
ItemOf(localDocPath, downloadedHtmlPath) ==
  [type |-> "object", key |-> downloadedHtmlPath, localDocPath |-> localDocPath,
   kbUrl |-> downloadedHtmlPath, downloadedHtmlPath |-> downloadedHtmlPath]

QueueItems ==
  { ItemOf(l, "ok") : l \in LocalDocPaths }
  \cup { ItemOf(LocalA, d) : d \in DOMAIN Downloads }
  \cup { [type |-> "null"] }

Queues ==
  { [isArray |-> TRUE, matched |-> m] :
      m \in UNION { [1..n -> QueueItems] : n \in 0..MaxQueue } }
  \cup { [isArray |-> FALSE, matched |-> <<>>] }

EntryOf(item, outcome, reason) ==
  [key |-> item.key, localDocPath |-> item.localDocPath, kbUrl |-> item.kbUrl,
   outcome |-> outcome, reason |-> reason]

Skipped(report, item, reason) ==
  [report EXCEPT !.skipped = @ + 1,
                 !.entries = Append(@, EntryOf(item, "skipped", reason))]

Updated(report, item) ==
  [report EXCEPT !.updated = @ + 1,
                 !.entries = Append(@, EntryOf(item, "updated", <<>>))]

Errored(report, item, reason) ==
  [report EXCEPT !.errors = @ + 1,
                 !.entries = Append(@, EntryOf(item, "error", reason))]

ApplyInit ==
  /\ applyPc = "start"
  /\ applyArgs \in [dryRun : BOOLEAN, limit : 0..MaxQueue]
  /\ applyQueue \in Queues
  /\ applyItems = <<>>
  /\ applyIndex = 1
  /\ applyDocs = LocalDocs0
  /\ applyReport = NoReport
  /\ applyReportFile = <<>>
  /\ LoadIdle
  /\ PoolIdle
  /\ LaterIdle
  /\ GenInit({})

\* main up to the loop: the items and the empty report.
ApplyBegin ==
  /\ applyPc = "start"
  /\ LET matched == IF applyQueue.isArray THEN applyQueue.matched ELSE <<>>
         items == IF applyArgs.limit > 0 /\ applyArgs.limit < Len(matched)
                    THEN SubSeq(matched, 1, applyArgs.limit) ELSE matched
     IN  /\ applyItems' = items
         /\ applyReport' = [NoReport EXCEPT !.dryRun = applyArgs.dryRun,
                                            !.processed = Len(items)]
         /\ applyPc' = IF Len(items) = 0 THEN "report" ELSE "loop"
  /\ applyIndex' = 1
  /\ UNCHANGED <<besidesApply, applyArgs, applyQueue, applyDocs, applyReportFile>>

\* One pass of the loop over the items.  Reading a field of a null item
\* throws before the try block, which ends main without a report.
ApplyItem ==
  /\ applyPc = "loop"
  /\ LET item == applyItems[applyIndex]
         after == IF applyIndex = Len(applyItems) THEN "report" ELSE "loop"
     IN  IF item.type = "null"
           THEN /\ applyPc' = "failed"
                /\ UNCHANGED <<applyIndex, applyDocs, applyReport>>
         ELSE
           LET localPath == resolve(item.localDocPath)
               live == Downloads[item.downloadedHtmlPath]
           IN  /\ applyPc' = after
               /\ applyIndex' = applyIndex + 1
               /\ IF ~startsWith(localPath, docsRoot)
                     THEN /\ applyReport' = Skipped(applyReport, item, <<"local path outside docs root">>)
                          /\ UNCHANGED applyDocs
                   ELSE IF localPath \notin DOMAIN applyDocs \/ ~live.readable
                     THEN /\ applyReport' = Errored(applyReport, item, <<"ENOENT">>)
                          /\ UNCHANGED applyDocs
                   ELSE IF ~findBodyRange(applyDocs[localPath]).found
                     THEN /\ applyReport' = Skipped(applyReport, item, <<"could not locate content__body">>)
                          /\ UNCHANGED applyDocs
                   ELSE IF ~live.liveBody
                     THEN /\ applyReport' = Skipped(applyReport, item, <<"could not extract live body">>)
                          /\ UNCHANGED applyDocs
                   ELSE IF validateConvertedBody(live.converted) # <<>>
                     THEN /\ applyReport' = Skipped(applyReport, item, validateConvertedBody(live.converted))
                          /\ UNCHANGED applyDocs
                   ELSE IF applyArgs.dryRun
                     THEN /\ applyReport' = Updated(applyReport, item)
                          /\ UNCHANGED applyDocs
                   ELSE \/ /\ applyDocs' = [applyDocs EXCEPT ![localPath] = rebuilt(@, live.converted)]
                           /\ applyReport' = Updated(applyReport, item)
                        \/ /\ applyDocs' \in { applyDocs, [applyDocs EXCEPT ![localPath] = PartialPage] }
                           /\ applyReport' = Errored(applyReport, item, <<"writeFile">>)
  /\ UNCHANGED <<besidesApply, applyArgs, applyQueue, applyItems, applyReportFile>>

\* After the loop: the skipped count is recomputed and the report is written
\* under the download root, in a dry run too.
ApplyWriteReport ==
  /\ applyPc = "report"
  /\ applyReport' = [applyReport EXCEPT !.skipped = applyReport.processed - applyReport.updated
                                                    - applyReport.errors]
  /\ \/ applyPc' = "done" /\ applyReportFile' = <<applyReport'>>
     \/ applyPc' = "failed" /\ UNCHANGED applyReportFile
  /\ UNCHANGED <<besidesApply, applyArgs, applyQueue, applyItems, applyIndex,
                 applyDocs>>

ApplyNext == ApplyBegin \/ ApplyItem \/ ApplyWriteReport

ApplySpec == ApplyInit /\ [][ApplyNext]_vars

\* ==================================================== download-kb-html
\* runPool(items, concurrency, worker) as main calls it: the worker is an
\* async function that never rejects, pushes its entry to the manifest and
\* resolves with it.  JavaScript runs each stretch of code between two
\* awaits without interruption, so a step is one such stretch.
MaxPoolItems == 3
MaxConcurrency == 3

Urls == { "u1", "u2" }

\* What a runOne call is doing: awaiting the worker call of myIndex, or
\* returned.
Awaiting(myIndex) == [state |-> "awaiting", myIndex |-> myIndex]
Returned == [state |-> "returned", myIndex |-> -1]

\* The entry the worker resolves with, for the item and the index it was
\* called with.
EntryFor(url, myIndex, status) == [url |-> url, index |-> myIndex, status |-> status]

\* results.push(value): the mutation of the assignment below.
StoreResult_Push(results, myIndex, value) ==
  [k \in DOMAIN results \cup { Cardinality(DOMAIN results) } |->
     IF k = Cardinality(DOMAIN results) THEN value ELSE results[k]]

\* results[myIndex] = value
StoreResult(results, myIndex, value) ==
  [k \in DOMAIN results \cup { myIndex } |-> IF k = myIndex THEN value ELSE results[k]]

\* Array.from({ length: concurrency }, () => runOne()): each runOne call
\* runs up to its first await, or returns at once when no item is left.
RECURSIVE StartRunners(_, _, _)
StartRunners(runners, index, calls) ==
  IF Len(runners) = poolConcurrency
    THEN [runners |-> runners, index |-> index, calls |-> calls]
  ELSE IF index < Len(poolItems)
    THEN StartRunners(Append(runners, Awaiting(index)), index + 1,
                      Append(calls, [item |-> poolItems[index + 1], index |-> index]))
  ELSE StartRunners(Append(runners, Returned), index, calls)

PoolInit ==
  /\ poolPc = "start"
  /\ poolItems \in UNION { [1..n -> Urls] : n \in 0..MaxPoolItems }
  /\ poolConcurrency \in 1..MaxConcurrency
  /\ poolIndex = 0
  /\ poolRunners = <<>>
  /\ poolResults = <<>>
  /\ poolCalls = <<>>
  /\ poolManifest = <<>>
  /\ LoadIdle
  /\ ApplyIdle
  /\ LaterIdle
  /\ GenInit({})

PoolStart ==
  /\ poolPc = "start"
  /\ LET started == StartRunners(<<>>, 0, <<>>)
     IN  /\ poolRunners' = started.runners
         /\ poolIndex' = started.index
         /\ poolCalls' = started.calls
  /\ poolPc' = "running"
  /\ UNCHANGED <<besidesPool, poolItems, poolConcurrency, poolResults,
                 poolManifest>>

\* The worker call a runOne awaits settles: the worker has pushed its entry,
\* runOne stores it and goes round its loop.
WorkerSettles(r) ==
  /\ poolPc = "running"
  /\ poolRunners[r].state = "awaiting"
  /\ \E status \in { "ok", "failed" } :
       LET myIndex == poolRunners[r].myIndex
           entry == EntryFor(poolItems[myIndex + 1], myIndex, status)
       IN  /\ poolManifest' = Append(poolManifest, entry)
           /\ poolResults' = StoreResult(poolResults, myIndex, entry)
           /\ IF poolIndex < Len(poolItems)
                 THEN /\ poolRunners' = [poolRunners EXCEPT ![r] = Awaiting(poolIndex)]
                      /\ poolIndex' = poolIndex + 1
                      /\ poolCalls' = Append(poolCalls, [item |-> poolItems[poolIndex + 1],
                                                         index |-> poolIndex])
               ELSE /\ poolRunners' = [poolRunners EXCEPT ![r] = Returned]
                    /\ UNCHANGED <<poolIndex, poolCalls>>
  /\ UNCHANGED <<besidesPool, poolPc, poolItems, poolConcurrency>>

\* await Promise.all(runners); return results
PoolReturns ==
  /\ poolPc = "running"
  /\ \A r \in 1..Len(poolRunners) : poolRunners[r].state = "returned"
  /\ poolPc' = "returned"
  /\ UNCHANGED <<besidesPool, poolItems, poolConcurrency, poolIndex,
                 poolRunners, poolResults, poolCalls, poolManifest>>

PoolNext ==
  \/ PoolStart
  \/ \E r \in 1..Len(poolRunners) : WorkerSettles(r)
  \/ PoolReturns

PoolSpec == PoolInit /\ [][PoolNext]_vars

\* ===================================== download-kb-html: fetchWithRetry
\* One call of fetchWithRetry(url, options).  A step is one pass of its
\* while loop: one attempt, with the ways an attempt can go.
MaxRetries == 2

\* How an attempt went: the response fetch resolved with, if any, whether
\* response.text() resolved, and the error otherwise.
AttemptOk == [response |-> "ok", text |-> TRUE, error |-> "none"]
AttemptBodyFailed == [response |-> "ok", text |-> FALSE, error |-> "body"]
AttemptNotOk == [response |-> "not ok", text |-> FALSE, error |-> "HTTP status"]
AttemptNetworkError == [response |-> "none", text |-> FALSE, error |-> "network"]
AttemptAborted == [response |-> "none", text |-> FALSE, error |-> "abort"]

\* The abort timer is started before sleep(delayMs): when the delay is not
\* shorter than the timeout, fetch is called with an aborted signal.
AttemptOutcomes(options) ==
  IF options.delayMs > 0 /\ options.delayMs >= options.timeoutMs
    THEN { AttemptAborted }
  ELSE { AttemptOk, AttemptBodyFailed, AttemptNotOk, AttemptNetworkError, AttemptAborted }

FetchOptions ==
  { [retries |-> r, delayMs |-> t[1], timeoutMs |-> t[2]] :
      r \in 0..MaxRetries, t \in { <<0, 20000>>, <<100, 20000>>, <<100, 50>> } }

\* while (attempt < retries): the mutation of the loop condition below.
MayAttempt_OneFewer(attempt, retries) == attempt < retries

\* while (attempt <= retries)
MayAttempt(attempt, retries) == attempt <= retries

FetchInit ==
  /\ fetchPc = "running"
  /\ fetchOptions \in FetchOptions
  /\ fetchAttempt = 0
  /\ fetchLog = <<>>
  /\ fetchResult = NoFetchResult
  /\ LoadIdle /\ ApplyIdle /\ PoolIdle /\ PageIdle /\ DiscIdle
  /\ GenInit({})

\* One pass of the loop, or the throw after it.
FetchLoop ==
  /\ fetchPc = "running"
  /\ IF MayAttempt(fetchAttempt, fetchOptions.retries)
       THEN \E outcome \in AttemptOutcomes(fetchOptions) :
              LET attempt == fetchAttempt + 1
              IN  /\ fetchAttempt' = attempt
                  /\ fetchLog' = Append(fetchLog, outcome)
                  /\ IF outcome.response = "ok" /\ outcome.text
                        THEN /\ fetchPc' = "returned"
                             /\ fetchResult' = [returned |-> TRUE, thrown |-> FALSE,
                                                attempt |-> attempt]
                      ELSE IF attempt > fetchOptions.retries
                        THEN /\ fetchPc' = "thrown"
                             /\ fetchResult' = [returned |-> FALSE, thrown |-> TRUE,
                                                attempt |-> attempt, error |-> outcome.error]
                      ELSE UNCHANGED <<fetchPc, fetchResult>>
     ELSE /\ fetchPc' = "thrown"
          /\ fetchResult' = [returned |-> FALSE, thrown |-> TRUE, attempt |-> 0,
                             error |-> "Unexpected fetch retry failure"]
          /\ UNCHANGED <<fetchAttempt, fetchLog>>
  /\ UNCHANGED <<besidesFetch, fetchOptions>>

FetchNext == FetchLoop

\* Every attempt ends: the delay, the request under its abort timer and the
\* reading of the body each resolve or reject.
FetchSpec == FetchInit /\ [][FetchNext]_vars /\ WF_vars(FetchNext)

\* ================================================= the page's scripts
\* theme.js, toc.js, sidebar.js and search.js on one generated page.  A step
\* is one event with every listener it reaches: a click runs the listeners
\* of its target and then the click listeners of the document.  (In
\* sidebar.js the parameter of the category callback reads hh-btn, which is
\* read here as the identifier it stands for.)
MaxTimers == 2      \* overlay-hide timers pending at once
MaxHandlers == 2    \* transitionend listeners registered at once

ThemeOptions == { "light", "dark", "system" }

\* theme.js
getPreference(theme) == IF theme.stored = "none" THEN "system" ELSE theme.stored

\* applyTheme that leaves data-theme alone for "system": the mutation of
\* the function below.
applyTheme_KeepsTheme(theme, preference, systemDark) ==
  [theme EXCEPT !.dataTheme = IF preference = "system" THEN @ ELSE preference,
                !.stored = preference]

applyTheme(theme, preference, systemDark) ==
  [theme EXCEPT !.dataTheme = IF preference = "system"
                               THEN (IF systemDark THEN "dark" ELSE "light")
                               ELSE preference,
                !.stored = preference]

\* show is "true", "false" or "undefined" (no argument).
toggleDropdown(theme, show) ==
  LET isOpen == IF show = "undefined" THEN theme.dropdownHidden ELSE show = "true"
  IN  [theme EXCEPT !.dropdownHidden = ~isOpen]

\* The click listener of the document, for a target outside the widget.
ThemeOutsideClick(theme) == toggleDropdown(theme, "false")

\* toc.js
TocToggleClick(toc) ==
  [open |-> ~toc.open, ariaExpanded |-> IF toc.open THEN "false" ELSE "true"]
TocLinkClick(toc) == [toc EXCEPT !.open = FALSE]
TocOutsideClick(toc) == [open |-> FALSE, ariaExpanded |-> "false"]

\* sidebar.js: the mobile drawer
openSidebar(drawer) ==
  [drawer EXCEPT !.open = TRUE, !.overlayVisible = TRUE, !.overlayDisplay = "block",
                 !.ariaExpanded = "true"]
closeSidebar(drawer) ==
  [drawer EXCEPT !.open = FALSE, !.overlayVisible = FALSE, !.timers = @ + 1,
                 !.ariaExpanded = "false"]

\* sidebar.js: a category.  Changing max-height starts a transition of the
\* list, which replaces the one that was running, unless the list is hidden.
collapsePages(category) ==
  [category EXCEPT !.handlers = Append(@, "collapse"), !.transition = ~category.hidden]
expandPages(category) ==
  [category EXCEPT !.hidden = FALSE, !.handlers = Append(@, "expand"), !.transition = TRUE]
CategoryClick(category) ==
  LET expanded == category.ariaExpanded = "true"
      toggled == [category EXCEPT !.ariaExpanded = IF expanded THEN "false" ELSE "true"]
  IN  IF expanded THEN collapsePages(toggled) ELSE expandPages(toggled)

\* search.js
openSearch(search) == [search EXCEPT !.hidden = FALSE]
closeSearch(search) == [search EXCEPT !.hidden = TRUE]

\* The page after it has loaded: the inline script and theme.js have applied
\* the stored preference, the category is rendered expanded or collapsed.
PageInit ==
  /\ pagePc = "loaded"
  /\ pageSystemDark \in BOOLEAN
  /\ \E stored \in ThemeOptions \cup { "none" } :
       pageTheme = applyTheme([RenderedTheme EXCEPT !.stored = stored],
                              getPreference([RenderedTheme EXCEPT !.stored = stored]),
                              pageSystemDark)
  /\ pageLastOption = "none"
  /\ pageToc = RenderedToc
  /\ pageDrawer = RenderedDrawer
  /\ \E hasActive \in BOOLEAN : pageCategory = RenderedCategory(hasActive)
  /\ pageSearch = [hidden |-> TRUE]
  /\ pageBodyOverflow = ""
  /\ LoadIdle /\ ApplyIdle /\ PoolIdle /\ FetchIdle /\ DiscIdle
  /\ GenInit({})

\* What every click outside the theme widget and outside the TOC does.
OutsideBoth ==
  /\ pageTheme' = ThemeOutsideClick(pageTheme)
  /\ pageToc' = TocOutsideClick(pageToc)

ClickThemeButton ==
  /\ pagePc = "loaded"
  /\ pageTheme' = toggleDropdown(pageTheme, "undefined")
  /\ pageToc' = TocOutsideClick(pageToc)
  /\ UNCHANGED <<besidesPage, pagePc, pageSystemDark, pageLastOption, pageDrawer, pageCategory,
                 pageSearch, pageBodyOverflow>>

ClickThemeOption(option) ==
  /\ pagePc = "loaded"
  /\ pageTheme' = toggleDropdown(applyTheme(pageTheme, option, pageSystemDark), "false")
  /\ pageLastOption' = option
  /\ pageToc' = TocOutsideClick(pageToc)
  /\ UNCHANGED <<besidesPage, pagePc, pageSystemDark, pageDrawer, pageCategory, pageSearch,
                 pageBodyOverflow>>

SystemSchemeChange ==
  /\ pagePc = "loaded"
  /\ pageSystemDark' = ~pageSystemDark
  /\ pageTheme' = IF getPreference(pageTheme) = "system"
                    THEN applyTheme(pageTheme, "system", pageSystemDark')
                    ELSE pageTheme
  /\ UNCHANGED <<besidesPage, pagePc, pageLastOption, pageToc, pageDrawer, pageCategory,
                 pageSearch, pageBodyOverflow>>

ClickTocToggle ==
  /\ pagePc = "loaded"
  /\ pageToc' = TocToggleClick(pageToc)
  /\ pageTheme' = ThemeOutsideClick(pageTheme)
  /\ UNCHANGED <<besidesPage, pagePc, pageSystemDark, pageLastOption, pageDrawer, pageCategory,
                 pageSearch, pageBodyOverflow>>

ClickTocLink ==
  /\ pagePc = "loaded"
  /\ pageToc' = TocLinkClick(pageToc)
  /\ pageTheme' = ThemeOutsideClick(pageTheme)
  /\ UNCHANGED <<besidesPage, pagePc, pageSystemDark, pageLastOption, pageDrawer, pageCategory,
                 pageSearch, pageBodyOverflow>>

ClickMenuToggle ==
  /\ pagePc = "loaded"
  /\ IF pageDrawer.open
       THEN /\ pageDrawer.timers < MaxTimers
            /\ pageDrawer' = closeSidebar(pageDrawer)
            /\ pageBodyOverflow' = ""
       ELSE /\ pageDrawer' = openSidebar(pageDrawer)
            /\ pageBodyOverflow' = "hidden"
  /\ OutsideBoth
  /\ UNCHANGED <<besidesPage, pagePc, pageSystemDark, pageLastOption, pageCategory, pageSearch>>

\* The overlay can be clicked while it is displayed.
ClickSidebarOverlay ==
  /\ pagePc = "loaded"
  /\ pageDrawer.overlayDisplay = "block"
  /\ pageDrawer.timers < MaxTimers
  /\ pageDrawer' = closeSidebar(pageDrawer)
  /\ pageBodyOverflow' = ""
  /\ OutsideBoth
  /\ UNCHANGED <<besidesPage, pagePc, pageSystemDark, pageLastOption, pageCategory, pageSearch>>

\* The timer closeSidebar started 250 ms ago fires.
OverlayTimerFires ==
  /\ pagePc = "loaded"
  /\ pageDrawer.timers > 0
  /\ pageDrawer' = [pageDrawer EXCEPT !.overlayDisplay = "none", !.timers = @ - 1]
  /\ UNCHANGED <<besidesPage, pagePc, pageSystemDark, pageTheme, pageLastOption, pageToc,
                 pageCategory, pageSearch, pageBodyOverflow>>

ClickCategory ==
  /\ pagePc = "loaded"
  /\ Len(pageCategory.handlers) < MaxHandlers
  /\ pageCategory' = CategoryClick(pageCategory)
  /\ OutsideBoth
  /\ UNCHANGED <<besidesPage, pagePc, pageSystemDark, pageLastOption, pageDrawer, pageSearch,
                 pageBodyOverflow>>

\* The running max-height transition of the page list ends: every listener
\* registered for transitionend runs, in the order of registration, and
\* removes itself; a collapse listener hides the list.
PagesTransitionEnd ==
  /\ pagePc = "loaded"
  /\ pageCategory.transition
  /\ pageCategory' =
       [pageCategory EXCEPT
          !.hidden = IF \E h \in 1..Len(pageCategory.handlers) :
                          pageCategory.handlers[h] = "collapse"
                     THEN TRUE ELSE @,
          !.handlers = <<>>,
          !.transition = FALSE]
  /\ UNCHANGED <<besidesPage, pagePc, pageSystemDark, pageTheme, pageLastOption, pageToc,
                 pageDrawer, pageSearch, pageBodyOverflow>>

ClickSearchTrigger ==
  /\ pagePc = "loaded"
  /\ pageSearch' = openSearch(pageSearch)
  /\ pageBodyOverflow' = "hidden"
  /\ OutsideBoth
  /\ UNCHANGED <<besidesPage, pagePc, pageSystemDark, pageLastOption, pageDrawer, pageCategory>>

ClickSearchBackdrop ==
  /\ pagePc = "loaded"
  /\ ~pageSearch.hidden
  /\ pageSearch' = closeSearch(pageSearch)
  /\ pageBodyOverflow' = ""
  /\ OutsideBoth
  /\ UNCHANGED <<besidesPage, pagePc, pageSystemDark, pageLastOption, pageDrawer, pageCategory>>

ClickElsewhere ==
  /\ pagePc = "loaded"
  /\ OutsideBoth
  /\ UNCHANGED <<besidesPage, pagePc, pageSystemDark, pageLastOption, pageDrawer, pageCategory,
                 pageSearch, pageBodyOverflow>>

\* Cmd/Ctrl+K
KeyCtrlK ==
  /\ pagePc = "loaded"
  /\ IF pageSearch.hidden
       THEN pageSearch' = openSearch(pageSearch) /\ pageBodyOverflow' = "hidden"
       ELSE pageSearch' = closeSearch(pageSearch) /\ pageBodyOverflow' = ""
  /\ UNCHANGED <<besidesPage, pagePc, pageSystemDark, pageTheme, pageLastOption, pageToc,
                 pageDrawer, pageCategory>>

\* Escape reaches the keydown listeners of theme.js, sidebar.js and search.js.
KeyEscape ==
  /\ pagePc = "loaded"
  /\ pageDrawer.open => pageDrawer.timers < MaxTimers
  /\ pageTheme' = IF ~pageTheme.dropdownHidden THEN toggleDropdown(pageTheme, "false")
                    ELSE pageTheme
  /\ pageDrawer' = IF pageDrawer.open THEN closeSidebar(pageDrawer) ELSE pageDrawer
  /\ pageSearch' = IF ~pageSearch.hidden THEN closeSearch(pageSearch) ELSE pageSearch
  /\ pageBodyOverflow' = IF pageDrawer.open \/ ~pageSearch.hidden THEN "" ELSE pageBodyOverflow
  /\ UNCHANGED <<besidesPage, pagePc, pageSystemDark, pageLastOption, pageToc, pageCategory>>

PageNext ==
  \/ ClickThemeButton
  \/ \E option \in ThemeOptions : ClickThemeOption(option)
  \/ SystemSchemeChange
  \/ ClickTocToggle
  \/ ClickTocLink
  \/ ClickMenuToggle
  \/ ClickSidebarOverlay
  \/ OverlayTimerFires
  \/ ClickCategory
  \/ PagesTransitionEnd
  \/ ClickSearchTrigger
  \/ ClickSearchBackdrop
  \/ ClickElsewhere
  \/ KeyCtrlK
  \/ KeyEscape

PageSpec == PageInit /\ [][PageNext]_vars

\* ================================================== page discovery
\* download-kb-html.mjs: discoverPageUrls.  A URL is its hostname, its
\* pathname as a sequence of "/", characters and one token per extension,
\* and its hash; two URLs are the same href when the three agree.
MaxDocLinks == 3    \* links read from one document

Url(hostname, pathname) == [hostname |-> hostname, pathname |-> pathname, hash |-> ""]

SeedMap == Url("h", <<"/", "k", "/", "sitemap", ".html">>)
MoreMap == Url("h", <<"/", "k", "/", "m", ".xml">>)
Article == Url("h", <<"/", "k", "/", "a", ".html">>)
Folder == Url("h", <<"/", "k", "/", "b", "/">>)
Image == Url("h", <<"/", "k", "/", "i", ".png">>)
SiblingMap == Url("h", <<"/", "k", "2", "/", "m", ".xml">>)
SiblingPage == Url("h", <<"/", "k", "2", "/", "p">>)
Foreign == Url("o", <<"/", "k", "/", "a", ".html">>)
Anchored == [SeedMap EXCEPT !.hash = "#top"]

\* --start-url with and without the trailing slash.
StartUrls == { Url("h", <<"/", "k", "/">>), Url("h", <<"/", "k">>) }

SitemapUrls == { SeedMap, MoreMap, SiblingMap }

FullLists ==
  { <<Article, MoreMap, Folder, Image>>,
    <<Anchored, MoreMap, MoreMap, Article>>,
    <<SiblingMap, SiblingPage, Foreign, SeedMap>>,
    <<SeedMap, Folder, Image, SiblingPage>> }

LinkLists ==
  { <<>> } \cup { SubSeq(l, 1, IF Len(l) < MaxDocLinks THEN Len(l) ELSE MaxDocLinks) : l \in FullLists }

Extensions == { ".html", ".xml", ".png" }

endsWith(s, suffix) ==
  Len(s) >= Len(suffix) /\ SubSeq(s, Len(s) - Len(suffix) + 1, Len(s)) = suffix

cleanUrl(url) == [url EXCEPT !.hash = ""]

inScope(url, scope) ==
  url.hostname = scope.hostname /\ startsWith(url.pathname, scope.pathname)

isLikelyHtmlUrl(url) ==
  \/ endsWith(url.pathname, <<"/">>)
  \/ endsWith(url.pathname, <<".html">>)
  \/ ~\E e \in Extensions : endsWith(url.pathname, <<e>>)

isLikelySitemap(url) ==
  \/ endsWith(url.pathname, <<"/", "sitemap", ".xml">>)
  \/ endsWith(url.pathname, <<".xml">>)
  \/ endsWith(url.pathname, <<"/", "sitemap", ".html">>)

DiscInit ==
  /\ discPc = "loop"
  /\ scopeUrl \in StartUrls
  /\ discSite \in [SitemapUrls -> LinkLists]
  /\ sitemapQueue = <<cleanUrl(SeedMap)>>
  /\ seenSitemaps = {}
  /\ pageUrls = {}
  /\ discLinks = <<>>
  /\ discFetched = <<>>
  /\ discPushed = {}
  /\ LoadIdle /\ ApplyIdle /\ PoolIdle /\ FetchIdle /\ PageIdle
  /\ GenInit({})

\* shift(), and continue when the URL was seen.
DiscSkipSeen ==
  /\ discPc = "loop"
  /\ sitemapQueue # <<>>
  /\ Head(sitemapQueue) \in seenSitemaps
  /\ sitemapQueue' = Tail(sitemapQueue)
  /\ UNCHANGED <<besidesDisc, discPc, scopeUrl, discSite, seenSitemaps, pageUrls, discLinks,
                 discFetched, discPushed>>

\* shift(), and fetchWithRetry throws.
DiscFetchFailed ==
  /\ discPc = "loop"
  /\ sitemapQueue # <<>>
  /\ Head(sitemapQueue) \notin seenSitemaps
  /\ sitemapQueue' = Tail(sitemapQueue)
  /\ seenSitemaps' = seenSitemaps \cup { Head(sitemapQueue) }
  /\ discFetched' = Append(discFetched, Head(sitemapQueue))
  /\ UNCHANGED <<besidesDisc, discPc, scopeUrl, discSite, pageUrls, discLinks, discPushed>>

\* shift(), and fetchWithRetry returns the document.
DiscFetched ==
  /\ discPc = "loop"
  /\ sitemapQueue # <<>>
  /\ Head(sitemapQueue) \notin seenSitemaps
  /\ sitemapQueue' = Tail(sitemapQueue)
  /\ seenSitemaps' = seenSitemaps \cup { Head(sitemapQueue) }
  /\ discFetched' = Append(discFetched, Head(sitemapQueue))
  /\ discLinks' = discSite[Head(sitemapQueue)]
  /\ discPc' = "links"
  /\ UNCHANGED <<besidesDisc, scopeUrl, discSite, pageUrls, discPushed>>

\* One round of the loop over the document's links.
DiscLink ==
  /\ discPc = "links"
  /\ discLinks # <<>>
  /\ discLinks' = Tail(discLinks)
  /\ LET link == cleanUrl(Head(discLinks))
     IN  IF ~inScope(link, scopeUrl)
         THEN UNCHANGED <<sitemapQueue, pageUrls, discPushed>>
         ELSE IF isLikelySitemap(link)
         THEN /\ IF link \notin seenSitemaps
                 THEN /\ sitemapQueue' = Append(sitemapQueue, link)
                      /\ discPushed' = discPushed \cup { link }
                 ELSE UNCHANGED <<sitemapQueue, discPushed>>
              /\ UNCHANGED pageUrls
         ELSE /\ pageUrls' = IF isLikelyHtmlUrl(link) THEN pageUrls \cup { link } ELSE pageUrls
              /\ UNCHANGED <<sitemapQueue, discPushed>>
  /\ UNCHANGED <<besidesDisc, discPc, scopeUrl, discSite, seenSitemaps, discFetched>>

DiscLinksDone ==
  /\ discPc = "links"
  /\ discLinks = <<>>
  /\ discPc' = "loop"
  /\ UNCHANGED <<besidesDisc, scopeUrl, discSite, sitemapQueue, seenSitemaps, pageUrls, discLinks,
                 discFetched, discPushed>>

DiscReturn ==
  /\ discPc = "loop"
  /\ sitemapQueue = <<>>
  /\ discPc' = "done"
  /\ UNCHANGED <<besidesDisc, scopeUrl, discSite, sitemapQueue, seenSitemaps, pageUrls, discLinks,
                 discFetched, discPushed>>

DiscNext ==
  \/ DiscSkipSeen
  \/ DiscFetchFailed
  \/ DiscFetched
  \/ DiscLink
  \/ DiscLinksDone
  \/ DiscReturn

DiscSpec == DiscInit /\ [][DiscNext]_vars /\ WF_vars(DiscNext)

\* ================================================================ claims
\* The vocabulary of the claims, stated from the input and the options.
WriteDone == pc = "done" /\ ~args.dryRun

IndexFilesUnder(fl) ==
  { p \in DOMAIN fl : IsPrefix(outDir, p) /\ p # outDir /\ Basename(p) = IndexHtml }

SurvivingPaths == { sortedArticles[i].path : i \in 1..Len(sortedArticles) }

GroupOfPath(p) == IF p = EmptyPath THEN FallbackSegment ELSE Head(p)

PagesFor(paths) ==
  (IF args.generateHome THEN { Append(outDir, IndexHtml) } ELSE {})
  \cup (IF args.generateLandings
        THEN { Append(PathJoin(outDir, <<GroupOfPath(p)>>), IndexHtml) : p \in paths }
        ELSE {})
  \cup { Append(PathJoin(outDir, p), IndexHtml) : p \in paths }

ExpectedPages == PagesFor(SurvivingPaths)

\* C1: after a write-mode run that completes without error, the index.html
\* files under the output root are exactly the expected ones (the home page
\* iff home generation is on, a landing page per group iff landing generation
\* is on, a page per surviving article), whatever was there before.
C1_OutputMirrorsModel ==
  WriteDone =>
    /\ IndexFilesUnder(files) = { f \in ExpectedPages : IsPrefix(outDir, f) }
    /\ ExpectedPages \subseteq DOMAIN files

C1_Witness ==
  /\ WriteDone
  /\ Len(sortedArticles) = 2
  /\ args.generateLandings
  /\ ~args.generateHome
  /\ staleDeletedCount > 0
  /\ \E f \in IndexFilesUnder(files0) : f \notin ExpectedPages

\* The target files of the pages of the run, in the order they are written.
TargetFiles ==
  (IF args.generateHome THEN <<homeFile>> ELSE <<>>)
  \o (IF args.generateLandings
      THEN [i \in 1..Len(sections) |-> Append(landingDir(sections[i]), IndexHtml)]
      ELSE <<>>)
  \o [i \in 1..Len(sortedArticles) |-> Append(articleDir(sortedArticles[i]), IndexHtml)]

\* C2: the pages of one run (home page, landing pages, article pages) are
\* written to pairwise distinct files.
C2_DistinctPagePaths ==
  pc = "done" =>
    \A i, j \in 1..Len(TargetFiles) : i # j => TargetFiles[i] # TargetFiles[j]

\* The article paths of the current input, normalized.
InputPaths == { normalizeArticlePath(doc.articles[i].path) : i \in 1..Len(doc.articles) }

\* The directories from the directory of file f up to, not including, the
\* output root.
DirsAbove(f) == { d \in Prefixes(Dirname(f)) : IsPrefix(outDir, d) /\ d # outDir }

\* C3 as stated: an article page left by a prior run whose article is not in
\* the current input is deleted by the next write-mode run.
C3_StaleArticlePageDeleted ==
  WriteDone =>
    \A f \in IndexFilesUnder(files0) :
      (files0[f].type = "article" /\ files0[f].key \notin InputPaths)
        => f \notin DOMAIN files

StaleBefore == { f \in IndexFilesUnder(files0) : f \notin ExpectedPages }

\* C3, amended: an index.html left by a prior run that is not the file of a
\* page of the current run is deleted by the next write-mode run; every
\* directory above it that became empty is removed, up to the first
\* non-empty one; no other directory is removed and the output root is never
\* removed.  A file left by a prior run that is the file of a page of the
\* current run is kept and holds the current page.
C3_StalePagePruned ==
  /\ WriteDone =>
       /\ \A f \in StaleBefore :
            /\ f \notin DOMAIN files
            /\ \A d \in DirsAbove(f) : d \in dirs => Entries(files, dirs, d) # {}
       /\ \A d \in dirs0 \ dirs : \E f \in StaleBefore : d \in DirsAbove(f)
       /\ \A f \in DOMAIN files0 \ StaleBefore : f \in DOMAIN files
       /\ \A f \in IndexFilesUnder(files0) \ StaleBefore : files[f].title # "Old"
  /\ (runs > 0 /\ outDir \in dirs0) => outDir \in dirs

C3_Witness ==
  /\ WriteDone
  /\ \E f \in StaleBefore :
       /\ Len(f) = Len(outDir) + 3
       /\ Dirname(f) \notin dirs
       /\ Dirname(Dirname(f)) \in dirs
  /\ \E f \in StaleBefore : \A d \in DirsAbove(f) : d \notin dirs

\* The requested include paths, as run compares them: the tokens of
\* --include-paths normalized by parseArgs and again by run.
RequestedPaths ==
  { normalizeArticlePath(normalizeArticlePath(argv.includePaths[i])) :
      i \in 1..Len(argv.includePaths) }

\* Validation fails: a bad flag value, an empty include token, an
\* unreadable or malformed input file, a blank article path, or a requested
\* include path that no article has.
InvalidInput ==
  \/ argv.generateHome \notin { "true", "FALSE " }
  \/ argv.generateLandings \notin { "true", "FALSE " }
  \/ \E i \in 1..Len(argv.includePaths) : \A k \in 1..Len(argv.includePaths[i]) :
       argv.includePaths[i][k] \in { "", " " }
  \/ doc.kind # "ok"
  \/ \E i \in 1..Len(doc.articles) : \A k \in 1..Len(doc.articles[i].path) :
       doc.articles[i].path[k] = " "
  \/ \E p \in RequestedPaths : p \notin InputPaths

\* C4: a run whose input fails validation throws before any filesystem write
\* or delete: it ends failed with the output tree as it found it.
C4_ValidationBeforeWrites ==
  (runs > 0 /\ InvalidInput) =>
    /\ pc = "failed"
    /\ error \in { "args", "input", "include" }
    /\ files = files0
    /\ dirs = dirs0

C4_Witness ==
  /\ pc = "failed"
  /\ error = "include"
  /\ Len(doc.articles) = 2
  /\ IndexFilesUnder(files) # {}

\* C5: a second write-mode run on the same input and options leaves the files
\* and their contents as the first run left them, deletes no stale page and
\* removes no directory.
C5_SecondRunIdempotent ==
  (WriteDone /\ prev.ran /\ prev.completed /\ ~prev.dryRun) =>
    /\ files = files0
    /\ dirs = dirs0
    /\ staleDeletedCount = 0
    /\ staleDirectoriesRemoved = {}

C5_Witness ==
  /\ WriteDone
  /\ prev.ran /\ prev.completed /\ ~prev.dryRun
  /\ prev.staleDeleted > 0
  /\ Len(sortedArticles) = 2
  /\ Len(sections) = 2

\* C6: with --include-paths and every requested path present, the selected
\* articles are exactly those of the requested paths, and after the run the
\* index.html files under the output root are exactly their pages plus the
\* home page and their groups' landing pages if enabled.
C6_IncludeFilterExact ==
  (WriteDone /\ argv.includePaths # NoInclude) =>
    /\ SurvivingPaths = RequestedPaths
    /\ IndexFilesUnder(files) = PagesFor(RequestedPaths)

C6_Witness ==
  /\ WriteDone
  /\ Len(argv.includePaths) = 1
  /\ InputPaths \ RequestedPaths # {}
  /\ \E f \in IndexFilesUnder(files0) :
       /\ files0[f].type = "article"
       /\ files0[f].key \in InputPaths \ RequestedPaths
       /\ f \notin DOMAIN files

\* The first article of the input with normalized path p.
FirstWithPath(p) ==
  doc.articles[CHOOSE i \in 1..Len(doc.articles) :
                 /\ normalizeArticlePath(doc.articles[i].path) = p
                 /\ \A j \in 1..(i - 1) : normalizeArticlePath(doc.articles[j].path) # p]

\* The article page the run wrote last, if it has just written one.
JustWritten ==
  IF pc = "articles" /\ idx > 1 THEN { sortedArticles[idx - 1] }
  ELSE IF pc \in { "list", "prune", "index", "done" } /\ Len(sortedArticles) > 0
       THEN { sortedArticles[Len(sortedArticles)] }
       ELSE {}

\* C7: of the input articles with the same normalized path the first is kept
\* and every later one is dropped with a warning, without failing the run;
\* at most one article of a path is generated (exactly one without an include
\* filter), it is the first occurrence, and the page written for it shows the
\* first occurrence's title.
C7_FirstDuplicateKept ==
  (runs > 0 /\ ~InvalidInput) =>
    /\ error \in { "none", "io" }
    /\ Len(duplicateWarnings) = Len(doc.articles) - Cardinality(InputPaths)
    /\ \A p \in InputPaths :
         LET kept == { i \in 1..Len(sortedArticles) : sortedArticles[i].path = p }
         IN  /\ Cardinality(kept) <= 1
             /\ argv.includePaths = NoInclude => Cardinality(kept) = 1
             /\ \A i \in kept : sortedArticles[i].title = cleanText(FirstWithPath(p).title)
    /\ \A i \in 1..Len(duplicateWarnings) :
         Cardinality({ j \in 1..Len(doc.articles) :
                         normalizeArticlePath(doc.articles[j].path) = duplicateWarnings[i] }) > 1
    /\ (~args.dryRun /\ pc \in { "articles", "list" }) =>
         \A article \in JustWritten :
           LET page == files[Append(PathJoin(outDir, article.path), IndexHtml)]
           IN  /\ page.type = "article"
               /\ page.key = article.path
               /\ page.title = cleanText(FirstWithPath(article.path).title)

C7_Witness ==
  /\ WriteDone
  /\ Len(doc.articles) = 2
  /\ doc.articles[1].path # doc.articles[2].path
  /\ doc.articles[1].title # doc.articles[2].title
  /\ Len(duplicateWarnings) = 1
  /\ Len(sortedArticles) = 1
  /\ files[Append(PathJoin(outDir, sortedArticles[1].path), IndexHtml)].title
       = cleanText(doc.articles[1].title)

\* How often article x occurs in the article list of section k.
Occurrences(k, x) ==
  Cardinality({ i \in 1..Len(sections[k].articles) : sections[k].articles[i] = x })

RECURSIVE SumCounts(_)
SumCounts(k) == IF k = 0 THEN 0 ELSE sections[k].count + SumCounts(k - 1)

\* C8: buildSectionModels partitions the selected articles: each article is
\* in the list of exactly one group, whose key is the first segment of the
\* article's path (the fallback for the empty path); no group is empty and
\* the counts sum to the number of selected articles.
C8_SectionsPartition ==
  /\ \A i \in 1..Len(sortedArticles) :
       \E k \in 1..Len(sections) :
         /\ Occurrences(k, sortedArticles[i]) = 1
         /\ sections[k].key = GroupOfPath(sortedArticles[i].path)
         /\ \A m \in 1..Len(sections) : m # k => Occurrences(m, sortedArticles[i]) = 0
  /\ \A k \in 1..Len(sections) :
       /\ sections[k].count > 0
       /\ sections[k].count = Len(sections[k].articles)
  /\ \A k, m \in 1..Len(sections) : k # m => sections[k].key # sections[m].key
  /\ SumCounts(Len(sections)) = Len(sortedArticles)

C8_Witness ==
  /\ pc = "done"
  /\ Len(sections) = 2
  /\ \E k \in 1..Len(sections) : sections[k].key = FallbackSegment
  /\ \E k \in 1..Len(sections) : Len(sections[k].articles[1].path) = 2

C8_WitnessShared ==
  /\ pc = "done"
  /\ Len(sections) = 1
  /\ sections[1].count = 2

\* C9: a dry run creates, changes and deletes no file and no directory.
C9_DryRunTouchesNothing ==
  args.dryRun => (files = files0 /\ dirs = dirs0)

C9_Witness ==
  /\ pc = "done"
  /\ args.dryRun
  /\ homeWrittenCount + landingWrittenCount + articleWrittenCount >= 3
  /\ staleDeletedCount > 0
  /\ outDir \in dirs

\* C10: a dry run reports the counts that the write-mode run from the same
\* input, options and output tree reports: pages written, stale pages
\* deleted, stale directories removed.
C10_DryRunReportsSameCounts ==
  (WriteDone /\ prev.ran /\ prev.completed /\ prev.dryRun
     /\ prev.files0 = files0 /\ prev.dirs0 = dirs0) =>
    /\ prev.pagesWritten = homeWrittenCount + landingWrittenCount + articleWrittenCount
    /\ prev.staleDeleted = staleDeletedCount
    /\ prev.staleDirsRemoved = Cardinality(staleDirectoriesRemoved)

\* The page a completed write-mode run has left for the article of path p.
ArticlePageOf(p) == files[Append(PathJoin(outDir, p), IndexHtml)]

\* C11: on every article page the Previous and the Next link point to the
\* articles just before and just after it in the sorted article list of its
\* own group; the first article of a group has no Previous and the last one
\* no Next, so that no link leads to an article of another group.
C11_PaginationWithinGroup ==
  WriteDone =>
    \A k \in 1..Len(sections) : \A j \in 1..Len(sections[k].articles) :
      LET siblings == sections[k].articles
          pagination == ArticlePageOf(siblings[j].path).pagination
      IN  /\ pagination.previous = IF j > 1 THEN <<siblings[j - 1].path>> ELSE <<>>
          /\ pagination.next = IF j < Len(siblings) THEN <<siblings[j + 1].path>> ELSE <<>>

\* The pages of the current run in the order run writes them (home page,
\* landing pages, article pages), each with its file.
RunPages ==
  (IF args.generateHome
   THEN <<[file |-> homeFile, content |-> renderHomePageHtml(sections)]>> ELSE <<>>)
  \o (IF args.generateLandings
      THEN [i \in 1..Len(sections) |->
              [file |-> Append(landingDir(sections[i]), IndexHtml),
               content |-> renderSectionLandingHtml(sections[i], sections)]]
      ELSE <<>>)
  \o [i \in 1..Len(sortedArticles) |->
        [file |-> Append(articleDir(sortedArticles[i]), IndexHtml),
         content |-> renderArticlePageHtml(sortedArticles[i], sortedArticles, sections)]]

\* The files after the pages at the positions order[1], ..., order[n] of a
\* list of pages have been written over the files fl, in that order.
RECURSIVE FilesAfter(_, _, _, _)
FilesAfter(fl, pages, order, n) ==
  IF n = 0 THEN fl
  ELSE WriteFile(FilesAfter(fl, pages, order, n - 1), pages[order[n]].file,
                 pages[order[n]].content)

SequentialOrder == [i \in 1..Len(RunPages) |-> i]

\* The number of pages the run has written.
PagesWritten == homeWrittenCount + landingWrittenCount + articleWrittenCount

\* The run was stopped by a throw while it wrote one of its pages.
PageWriteThrew ==
  /\ pc = "failed" /\ error = "io"
  /\ PagesWritten < (IF args.generateHome THEN 1 ELSE 0)
                     + (IF args.generateLandings THEN Len(sections) ELSE 0)
                     + Len(sortedArticles)

\* The file of page N, the page whose write threw.
ThrowingPageFile == RunPages[PagesWritten + 1].file

\* C12: when the write of page N of the M pages of a run throws, the run
\* stops there: apart from the file of page N itself, the files are those the
\* run found with pages 1..N-1 written over them (no rollback, and none of
\* the pages N+1..M written), no stale file is pruned, no directory is
\* removed and the search index is as the run found it.
C12_AbortKeepsWrittenPages ==
  PageWriteThrew =>
    /\ LET pages == RunPages
           throwing == pages[PagesWritten + 1].file
           expected == FilesAfter(files0, pages, [i \in 1..Len(pages) |-> i], PagesWritten)
       IN  /\ DOMAIN files \ { throwing } = DOMAIN expected \ { throwing }
           /\ \A f \in DOMAIN expected \ { throwing } : files[f] = expected[f]
    /\ \A f \in DOMAIN files0 : f \in DOMAIN files
    /\ dirs0 \subseteq dirs
    /\ staleDeletedCount = 0
    /\ staleDirectoriesRemoved = {}
    /\ LET searchIndexPath == Append(outDir, SearchIndexJson)
       IN  IF searchIndexPath \in DOMAIN files0
           THEN files[searchIndexPath] = files0[searchIndexPath]
           ELSE searchIndexPath \notin DOMAIN files

C12_Witness ==
  /\ PageWriteThrew
  /\ PagesWritten >= 2
  /\ files # files0
  /\ StaleBefore # {}
  /\ Append(outDir, SearchIndexJson) \in DOMAIN files0
  /\ ThrowingPageFile \in DOMAIN files /\ files[ThrowingPageFile] = PartialContent
  /\ \E k \in (PagesWritten + 2)..Len(RunPages) : RunPages[k].file \notin DOMAIN files

\* ------------------------------------------------------------------ C13
\* The input file holds a document with an articles array.
HasArticlesArray ==
  /\ loadFile.readable /\ loadFile.json
  /\ loadFile.root.type = "object"
  /\ "articles" \in DOMAIN loadFile.root.fields
  /\ loadFile.root.fields["articles"].type = "array"

HasKey(value, key) == key \in DOMAIN value.fields
IsArrayAt(value, key) == HasKey(value, key) /\ value.fields[key].type = "array"
IsTextAt(value, key) ==
  /\ HasKey(value, key)
  /\ value.fields[key].type = "string"
  /\ value.fields[key].text \notin { "", " " }

\* The requirements on an article, on a section and on a code block, in the
\* order of the document; "" is the requirement to be an object, the last
\* one of an article and of a section is the requirement on its items.
ArticleFields == <<"", "path", "title", "sections", "sections[]">>
SectionFields == <<"", "header", "isCloud", "content", "codeBlocks", "codeBlocks[]">>
CodeBlockFields == <<"", "code", "language", "explanation">>

\* What is wrong in the document: for each failed requirement the place
\* <<article, requirement, section, requirement, code block, requirement>>,
\* with 0 where the place has no such part.
CodeBlockOffences(codeBlock, i, j, k) ==
  IF codeBlock.type # "object" THEN { <<i, 5, j, 6, k, 1>> }
  ELSE { <<i, 5, j, 6, k, r>> : r \in { q \in 2..4 : ~HasKey(codeBlock, CodeBlockFields[q]) } }

SectionOffences(section, i, j) ==
  IF section.type # "object" THEN { <<i, 5, j, 1, 0, 0>> }
  ELSE { <<i, 5, j, r, 0, 0>> : r \in { q \in 2..4 : ~HasKey(section, SectionFields[q]) } }
       \cup (IF ~IsArrayAt(section, "codeBlocks") THEN { <<i, 5, j, 5, 0, 0>> }
             ELSE LET codeBlocks == section.fields["codeBlocks"].items
                  IN  UNION { CodeBlockOffences(codeBlocks[k], i, j, k) :
                                k \in 1..Len(codeBlocks) })

ArticleOffences(article, i) ==
  IF article.type # "object" THEN { <<i, 1, 0, 0, 0, 0>> }
  ELSE { <<i, r, 0, 0, 0, 0>> : r \in { q \in 2..3 : ~IsTextAt(article, ArticleFields[q]) } }
       \cup (IF ~IsArrayAt(article, "sections") THEN { <<i, 4, 0, 0, 0, 0>> }
             ELSE LET articleSections == article.fields["sections"].items
                  IN  UNION { SectionOffences(articleSections[j], i, j) :
                                j \in 1..Len(articleSections) })

Offences ==
  IF ~HasArticlesArray THEN {}
  ELSE LET articles == loadFile.root.fields["articles"].items
       IN  UNION { ArticleOffences(articles[i], i) : i \in 1..Len(articles) }

\* The order of the document on places.
Before(place, other) ==
  \E n \in 1..6 : place[n] < other[n] /\ \A m \in 1..(n - 1) : place[m] = other[m]

\* The element and field a place is named by in an error message.
NameOf(place) ==
  [articles |-> place[1] - 1,
   sections |-> IF place[2] = 5 THEN place[3] - 1 ELSE -1,
   codeBlocks |-> IF place[2] = 5 /\ place[4] = 6 THEN place[5] - 1 ELSE -1,
   field |-> IF place[2] < 5 THEN ArticleFields[place[2]]
             ELSE IF place[4] < 6 THEN SectionFields[place[4]]
             ELSE CodeBlockFields[place[6]]]

Loaded == loadResult.thrown \/ loadResult.returned

\* C13: loadData is all-or-nothing.  It returns the parsed document only if
\* the root has an articles array, every article has a non-empty (after
\* trimming) string path and title and an array sections, every section has
\* the keys header, isCloud and content and an array codeBlocks, and every code
\* block has the keys code, language and explanation; otherwise it throws,
\* returns nothing, and its error names the first offending element and field
\* in the order of the document.
C13_LoadDataAllOrNothing ==
  Loaded =>
    /\ loadResult.returned <=> (HasArticlesArray /\ Offences = {})
    /\ loadResult.thrown <=> ~loadResult.returned
    /\ loadResult.returned => loadResult.value = loadFile.root
    /\ loadResult.thrown => loadResult.value = [type |-> "undefined"]
    /\ Offences # {} =>
         \E first \in Offences :
           /\ \A other \in Offences \ { first } : Before(first, other)
           /\ loadResult.message = NameOf(first)
    /\ (loadResult.thrown /\ Offences = {}) =>
         /\ loadResult.message.articles = -1
         /\ loadResult.message.field \in { "file", "json", "root", "articles" }

\* Two things are wrong, in two code blocks of one section, and the error
\* names the first.
C13_Witness ==
  /\ loadResult.thrown
  /\ Cardinality(Offences) = 2
  /\ \A place \in Offences : place[1] = 2 /\ place[3] = 2 /\ place[4] = 6
  /\ loadResult.message.codeBlocks = 0
  /\ loadResult.message.field = "language"

C13_WitnessReturned ==
  /\ loadResult.returned
  /\ Len(loadFile.root.fields["articles"].items) = 2

\* ------------------------------------------------------------------ C14
\* C14: the Skipped count of the summary of a completed run is the number of
\* input articles dropped as duplicates of an earlier normalized path,
\* whatever the options.
C14_SkippedCountsDuplicates ==
  pc = "done" => skippedCount = Len(doc.articles) - Cardinality(InputPaths)

\* ------------------------------------------------------------------ C15
\* The records of the search index a completed write-mode run has written.
SearchIndexDocs == files[Append(outDir, SearchIndexJson)].docs

\* The paths of the articles that survive de-duplication and the include
\* filter, from the input and the options.
SelectedPaths == IF argv.includePaths = NoInclude THEN InputPaths ELSE RequestedPaths

\* "/" + p + "/"
UrlOf(p) == <<"">> \o p \o <<"">>

\* C15: the search index a run writes has exactly one record per selected
\* surviving article and no other record; the category of a record is the
\* title-cased first segment of the article's path, which is the label of
\* the article's group, and its url is "/" + the normalized path + "/".
C15_SearchIndexRecords ==
  WriteDone =>
    /\ Len(SearchIndexDocs) = Cardinality(SelectedPaths)
    /\ \A i \in 1..Len(SearchIndexDocs) : \E p \in SelectedPaths : SearchIndexDocs[i].url = UrlOf(p)
    /\ \A p \in SelectedPaths :
         \E i \in 1..Len(SearchIndexDocs) :
           /\ SearchIndexDocs[i].url = UrlOf(p)
           /\ SearchIndexDocs[i].category = titleCaseFromSegment(GroupOfPath(p))
           /\ SearchIndexDocs[i].title = cleanText(FirstWithPath(p).title)
           /\ \E k \in 1..Len(sections) :
                /\ sections[k].key = GroupOfPath(p)
                /\ sections[k].label = SearchIndexDocs[i].category
           /\ \A j \in 1..Len(SearchIndexDocs) : j # i => SearchIndexDocs[j].url # UrlOf(p)

\* A duplicate was dropped: one record, with the first occurrence's title.
C15_Witness ==
  /\ WriteDone
  /\ Len(duplicateWarnings) = 1
  /\ Len(SearchIndexDocs) = 1
  /\ SearchIndexDocs[1].title = "T2"

\* An article was filtered out.
C15_WitnessFiltered ==
  /\ WriteDone
  /\ Len(doc.articles) = 2
  /\ argv.includePaths # NoInclude
  /\ Len(SearchIndexDocs) = 1

C15_WitnessFallback ==
  /\ WriteDone
  /\ Len(SearchIndexDocs) = 2
  /\ \E i \in 1..2 : SearchIndexDocs[i].url = <<"", "", "">> /\ SearchIndexDocs[i].category = "Misc"

\* ------------------------------------------------------------------ C17
\* C17: the page writes of a run are independent of each other: in whatever
\* order the home, landing and article pages of the run are written over the
\* files the run found, the files are in the end those that the order home
\* page, landing pages, article pages leaves.
C17_WriteOrderIrrelevant ==
  (runs > 0 /\ error = "none" /\ ~args.dryRun) =>
    \A order \in Permutations(1..Len(RunPages)) :
      FilesAfter(files0, RunPages, order, Len(RunPages))
        = FilesAfter(files0, RunPages, SequentialOrder, Len(RunPages))

\* ------------------------------------------------------------------ C18
\* A relative reference resolved against the directory of a page.
ResolvedFrom(pageDir, reference) == PathJoin(pageDir, reference)

\* The number of segments of a path.
SegmentCount(p) == Cardinality({ n \in 1..Len(p) : p[n] # "" })

\* C18: the relative references of every page of a run are computed from its
\* depth (home page 0, landing page 1, article page the number of segments
\* of its path), and resolved against the directory the page is written to
\* its search-index reference is <out>/search-index.json and its Home link
\* is the output root.
C18_RelativeReferences ==
  (runs > 0 /\ error = "none") =>
    \A n \in 1..Len(RunPages) :
      LET page == RunPages[n].content
          pageDir == Dirname(RunPages[n].file)
          depth == CASE page.type = "home" -> 0
                     [] page.type = "landing" -> 1
                     [] OTHER -> SegmentCount(page.key)
      IN  /\ Len(page.searchRoot) = depth
          /\ Len(page.homeHref) = depth + 1
          /\ ResolvedFrom(pageDir, Append(page.searchRoot, SearchIndexJson))
               = Append(outDir, SearchIndexJson)
          /\ ResolvedFrom(pageDir, page.homeHref) = outDir

\* ------------------------------------------------------------------ C19
\* The groups a sidebar renders expanded, and its links marked active, as
\* <<group, link>> with link 0 for the overview link of the group.
ExpandedGroups(sidebar) == { i \in 1..Len(sidebar) : sidebar[i].expanded }
ActiveLinks(sidebar) ==
  { <<i, 0>> : i \in { g \in 1..Len(sidebar) : sidebar[g].overviewActive } }
  \cup UNION { { <<i, j>> : j \in { l \in 1..Len(sidebar[i].links) : sidebar[i].links[l].active } } :
                i \in 1..Len(sidebar) }

\* C19: in the sidebar of every article page exactly one group is expanded,
\* the group whose article list has the article, and exactly one link is
\* marked active, the link of the article; in the sidebar of the home page no
\* group is expanded and no link is active.
C19_SidebarActiveState ==
  (runs > 0 /\ error = "none") =>
    \A n \in 1..Len(RunPages) :
      LET page == RunPages[n].content
      IN  /\ page.type = "article" =>
               /\ \E i \in 1..Len(sections) :
                    /\ ExpandedGroups(page.sidebar) = { i }
                    /\ \E j \in 1..Len(sections[i].articles) :
                         /\ sections[i].articles[j].path = page.key
                         /\ ActiveLinks(page.sidebar) = { <<i, j>> }
          /\ page.type = "home" =>
               /\ ExpandedGroups(page.sidebar) = {}
               /\ ActiveLinks(page.sidebar) = {}

\* ------------------------------------------------------------------ C16
\* The items whose pass of the loop has ended, normally or by throwing.
PassesEnded ==
  IF applyPc = "failed" /\ applyIndex <= Len(applyItems) THEN applyIndex ELSE applyIndex - 1

\* A step overwrites a local page only without --dry-run and for an item
\* whose converted body validateConvertedBody accepted.
OverwritesOnlyValidated ==
  applyDocs' # applyDocs =>
    /\ ~applyArgs.dryRun
    /\ applyPc = "loop"
    /\ applyItems[applyIndex].type = "object"
    /\ validateConvertedBody(Downloads[applyItems[applyIndex].downloadedHtmlPath].converted) = <<>>

DryRunWritesNoPage == applyArgs.dryRun => applyDocs = LocalDocs0

OneOutcomePerItem ==
  /\ Len(applyReport.entries) = PassesEnded
  /\ \A i \in 1..PassesEnded :
       /\ applyReport.entries[i].key = applyItems[i].key
       /\ applyReport.entries[i].localDocPath = applyItems[i].localDocPath
       /\ applyReport.entries[i].outcome \in { "updated", "skipped", "error" }

\* C16: the script overwrites a local page only when --dry-run is not set and
\* the converted body passed validateConvertedBody; with --dry-run no local
\* page is written; and every queue item the loop has processed has exactly
\* one entry in the report, with the outcome updated, skipped or error.
C16_ApplyWritesAndOutcomes ==
  /\ [][OverwritesOnlyValidated]_vars
  /\ [](applyPc # "idle" => DryRunWritesNoPage /\ OneOutcomePerItem)

\* ------------------------------------------------------------------ C20
\* The worker calls in flight: the calls made whose entry is not pushed yet.
InFlight == Len(poolCalls) - Len(poolManifest)

CallsOf(i) == { c \in 1..Len(poolCalls) : poolCalls[c].index = i }

\* C20: runPool hands every item of the list to the worker exactly once,
\* stores each result at the index of its item, and never has more than
\* `concurrency` worker calls in flight, whatever the order in which the
\* worker calls settle.
C20_RunPoolOncePerItem ==
  /\ InFlight <= poolConcurrency
  /\ \A c \in 1..Len(poolCalls) : poolCalls[c].item = poolItems[poolCalls[c].index + 1]
  /\ \A i \in 0..(Len(poolItems) - 1) : Cardinality(CallsOf(i)) <= 1
  /\ \A k \in DOMAIN poolResults :
       /\ k \in 0..(Len(poolItems) - 1)
       /\ poolResults[k].index = k
       /\ poolResults[k].url = poolItems[k + 1]
  /\ poolPc = "returned" =>
       /\ \A i \in 0..(Len(poolItems) - 1) : Cardinality(CallsOf(i)) = 1
       /\ DOMAIN poolResults = 0..(Len(poolItems) - 1)
       /\ InFlight = 0

\* runPool has returned for three items and two runners whose worker calls
\* settled out of the order they were made in, with both runners in flight
\* at once.
C20_Witness ==
  /\ poolPc = "returned"
  /\ Len(poolItems) = 3 /\ poolConcurrency = 2
  /\ poolManifest[1].index = 1
  /\ poolManifest[2].index = 2
  /\ poolManifest[3].index = 0

\* ------------------------------------------------------------------ C24
\* The files a run has created or changed, and the files it has deleted.
FilesTouched ==
  { f \in DOMAIN files : f \notin DOMAIN files0 \/ files[f] # files0[f] }
FilesDeleted == DOMAIN files0 \ DOMAIN files

\* C24: every file the generator writes, and every file pruning deletes, is
\* the output directory's or a descendant's, whatever segments (".", "..",
\* empty) the article paths that passed validation have.
C24_WritesInsideOutputRoot ==
  /\ \A f \in FilesTouched : IsPrefix(outDir, f)
  /\ \A f \in FilesDeleted : IsPrefix(outDir, f)

\* ------------------------------------------------------------------ C25
\* C25: the records of the search index a run writes have distinct ids, so
\* that finding a record by the id of a search hit finds the record of the
\* article that matched.
C25_SearchIdsDistinct ==
  WriteDone =>
    \A i, j \in 1..Len(SearchIndexDocs) :
      SearchIndexDocs[i].id = SearchIndexDocs[j].id => i = j

\* ------------------------------------------------------------------ C26
\* A path is the directory root or a descendant of it.
IsUnder(p, root) == p = root \/ startsWith(p, root \o <<"/">>)

\* The local pages the script has written so far.
PagesOverwritten == { p \in DOMAIN applyDocs : applyDocs[p] # LocalDocs0[p] }

\* C26: whatever the localDocPath of a queue item, the script writes a page
\* only at a path that is the docs root or a descendant of it.
C26_WritesUnderDocsRoot ==
  applyPc # "idle" => \A p \in PagesOverwritten : IsUnder(p, docsRoot)

\* ------------------------------------------------------------------ C21
FetchEnded == fetchPc \in { "returned", "thrown" }

\* The attempts made so far that got an HTTP-ok response, and those that got
\* one and read its body.
OkResponses == { k \in 1..Len(fetchLog) : fetchLog[k].response = "ok" }
Successes == { k \in OkResponses : fetchLog[k].text }

\* The bounds on the attempts, and what a call that threw has thrown.
AttemptBounds ==
  /\ fetchAttempt = Len(fetchLog)
  /\ Len(fetchLog) <= fetchOptions.retries + 1
  /\ FetchEnded => Len(fetchLog) >= 1
  /\ fetchPc = "thrown" =>
       /\ Len(fetchLog) = fetchOptions.retries + 1
       /\ fetchResult.attempt = Len(fetchLog)
       /\ fetchResult.error = fetchLog[Len(fetchLog)].error

\* The claim as stated: an attempt that gets an HTTP-ok response is the last
\* attempt, and the call returns its result.
C21_ReturnsFirstOkResponse ==
  fetchPc # "idle" =>
    /\ AttemptBounds
    /\ \A k \in OkResponses :
         /\ k = Len(fetchLog)
         /\ fetchPc = "returned" /\ fetchResult.attempt = k
    /\ fetchPc = "thrown" => OkResponses = {}

\* C21: fetchWithRetry makes at least one and at most retries+1 attempts; it
\* returns the result of the first attempt that gets an HTTP-ok response and
\* reads its body, and makes no attempt after it; an attempt that fails (no
\* response, a non-ok response, or an ok response whose body cannot be read)
\* is followed by the next one, and when all retries+1 attempts fail the call
\* throws the error of the last; the call ends when every attempt ends.
C21_FetchWithRetryAttempts ==
  /\ [](fetchPc # "idle" =>
          /\ AttemptBounds
          /\ \A k \in Successes :
               /\ k = Len(fetchLog)
               /\ fetchPc = "returned" /\ fetchResult.attempt = k
          /\ fetchPc = "returned" => Successes = { Len(fetchLog) }
          /\ fetchPc = "thrown" => Successes = {})
  /\ (fetchPc = "running" ~> FetchEnded)

\* The call returned the third attempt's result after a non-ok response and
\* an ok response whose body could not be read.
C21_Witness ==
  /\ fetchPc = "returned"
  /\ fetchOptions.retries = 2
  /\ fetchLog = <<AttemptNotOk, AttemptBodyFailed, AttemptOk>>
  /\ fetchResult.attempt = 3

\* All attempts failed and the last one's error was thrown.
C21_WitnessThrown ==
  /\ fetchPc = "thrown"
  /\ Len(fetchLog) = 3
  /\ fetchResult.error = "abort"

\* ---------------------------------------------------------------- C22
SystemScheme == IF pageSystemDark THEN "dark" ELSE "light"

ThemeFollowsLastClick ==
  pageLastOption # "none" =>
    /\ pageTheme.stored = pageLastOption
    /\ pageTheme.dataTheme = IF pageLastOption = "system" THEN SystemScheme
                                                           ELSE pageLastOption

SchemeChangeOnlyMovesSystem ==
  (pageSystemDark' # pageSystemDark /\ pageTheme'.dataTheme # pageTheme.dataTheme)
    => getPreference(pageTheme) = "system"

\* C22: once an option of the theme widget has been clicked, the stored
\* theme-preference is the option clicked last and data-theme is that option
\* when it is light or dark and the current system scheme when it is system;
\* a change of the system scheme changes data-theme only while the
\* preference is system.
C22_ThemePersistsPreference ==
  [](ThemeFollowsLastClick) /\ [][SchemeChangeOnlyMovesSystem]_vars

\* System was clicked while the page showed light, and the system scheme is dark.
C22_Witness ==
  /\ pageLastOption = "system"
  /\ pageSystemDark
  /\ pageTheme.stored = "system"
  /\ pageTheme.dataTheme = "dark"

\* ---------------------------------------------------------------- C23
\* C23: the TOC toggle's aria-expanded is 'true' exactly when the TOC panel
\* carries the mobile-open class, after any toggle clicks, clicks outside the
\* TOC and clicks on TOC links.
C23_TocAriaMatchesOpen ==
  pagePc = "loaded" => (pageToc.ariaExpanded = "true" <=> pageToc.open)

CallbacksDone == pageCategory.handlers = <<>> /\ ~pageCategory.transition

FetchedOnce ==
  \A i, j \in 1..Len(discFetched) : discFetched[i] = discFetched[j] => i = j

\* The path lies under the start URL's path: equal to it, or continuing it
\* at a "/".
PathUnder(pathname, root) ==
  /\ startsWith(pathname, root)
  /\ \/ root[Len(root)] = "/"
     \/ Len(pathname) = Len(root)
     \/ pathname[Len(root) + 1] = "/"

UnderStart(url) ==
  url.hostname = scopeUrl.hostname /\ PathUnder(url.pathname, scopeUrl.pathname)

DiscoveredInScope == \A url \in discPushed \cup pageUrls : UnderStart(url)

\* C30: discovery hands each sitemap URL to the fetch at most once, every
\* URL it pushes as a further sitemap or collects as a page has the start
\* URL's hostname and a path under the start URL's path, and the loop ends.
C30_DiscoveryOnceInScopeAndEnds ==
  /\ [](discPc # "idle" => FetchedOnce /\ DiscoveredInScope)
  /\ <>(discPc = "done")

====
